---- MODULE Spec2Model ----
(***************************************************************************)
(* mup-multicore (src/index.js): a Meteor Up plugin that runs worker       *)
(* containers next to the primary container of an application.             *)
(*                                                                         *)
(* The module models one mup process at a time (load the configuration,    *)
(* prepareConfig, one lifecycle hook or the logs command) against the      *)
(* container inventory of each remote host, which outlives the process.    *)
(* Every remote command (api.runSSHCommand) is one step: it either takes   *)
(* effect on the host and returns its output, or raises.                   *)
(***************************************************************************)
EXTENDS Integers, Sequences, FiniteSets, TLC

VARIABLES
    loaded,         \* the configuration as the operator wrote it (never changed)
    config,         \* the configuration object the plugin holds (prepareConfig edits it)
    serverConfigs,  \* src/index.js:2, the module-level per-server override table
    prepared,       \* prepareConfig has run in this process
    options,        \* api.getOptions().servers
    effective,      \* per server, the settings the three getters return
    selected,       \* the result of getFilteredServers
    details,        \* what the two validators returned
    containers,     \* per server, the containers on the host: 0 the primary, i worker i
    nginx,          \* per server, the reverse proxy's files
    hook,           \* the hook (or command) in progress and its stage
    tasks,          \* the per-server async tasks of every Promise.all in flight
    lastCmd,        \* the remote command issued by the last step
    failures,       \* raised commands and crashed containers in this process
    prev            \* per server, the outcome of the last completed start pass

procVars == <<loaded, config, serverConfigs, prepared, options>>
pureVars == <<effective, selected, details>>
hostVars == <<containers, nginx>>
runVars  == <<hook, tasks, lastCmd, failures, prev>>
vars     == <<loaded, config, serverConfigs, prepared, options, effective, selected,
              details, containers, nginx, hook, tasks, lastCmd, failures, prev>>

(***************************************************************************)
(* Bounds of the model.                                                    *)
(***************************************************************************)
\* The longest --servers filter drawn.
MaxFilterLen == 2
\* The largest instances number a configuration or an nproc probe gives.
MaxCores == 4
\* Commands that raise, and containers that crash, in one process.
MaxFailures == 2

(***************************************************************************)
(* JavaScript values.  A value is a record of its type and a code: for a   *)
(* number the number, for a boolean 0 or 1, for a string the index of the  *)
(* string in the table below.  Half(n) is the number n + 0.5.              *)
(***************************************************************************)
Undef    == [t |-> "undefined", v |-> 0]
Num(n)   == [t |-> "number", v |-> n]
Half(n)  == [t |-> "half", v |-> n]
NaN      == [t |-> "NaN", v |-> 0]
Bool(b)  == [t |-> "boolean", v |-> IF b THEN 1 ELSE 0]
\* strings: 0 is 'auto', 1 is the empty string, 2 is some other string
Str(k)   == [t |-> "string", v |-> k]
Auto     == Str(0)

TypeOf(x) == IF x.t \in {"NaN", "half"} THEN "number" ELSE x.t

\* ToBoolean: undefined, NaN, 0, '' and false are falsy.
Truthy(x) ==
    CASE x.t = "undefined" -> FALSE
      [] x.t = "NaN"       -> FALSE
      [] x.t = "number"    -> x.v # 0
      [] x.t = "half"      -> TRUE
      [] x.t = "boolean"   -> x.v = 1
      [] x.t = "string"    -> x.v # 1

\* a || b
JsOr(a, b) == IF Truthy(a) THEN a ELSE b

\* a <= b and a < b on numbers: false when either side is NaN.
IsNumber(x) == x.t \in {"number", "half"}
Twice(x)    == IF x.t = "half" THEN 2 * x.v + 1 ELSE 2 * x.v
JsLeq(a, b) == IsNumber(a) /\ IsNumber(b) /\ Twice(a) <= Twice(b)
JsLt(a, b)  == IsNumber(a) /\ IsNumber(b) /\ Twice(a) < Twice(b)

(***************************************************************************)
(* The configuration.                                                      *)
(***************************************************************************)
ServerNames == {"web1", "web2", "worker1"}

\* A multiCore object; present is FALSE when the key is absent.
NoSettings ==
    [present |-> FALSE, instances |-> Undef, startingPort |-> Undef, useNginx |-> Undef]

Settings(i, p, n) ==
    [present |-> TRUE, instances |-> i, startingPort |-> p, useNginx |-> n]

\* obj?.field
Field(obj, f) == IF obj.present THEN obj[f] ELSE Undef

\* app.servers[name]: present when the key exists; its multiCore key.
NoServer == [present |-> FALSE, multiCore |-> NoSettings]

\* config.app.env.PORT || 3000
getAppPort(cfg) == IF Truthy(cfg.port) THEN cfg.port ELSE Num(3000)

\* serverConfig?.instances || globalConfig?.instances || 'auto'
getInstanceCount(cfg, table, serverName) ==
    JsOr(JsOr(Field(table[serverName], "instances"), Field(cfg.multiCore, "instances")),
         Auto)

\* serverConfig?.startingPort || globalConfig?.startingPort || 3001
getStartingPort(cfg, table, serverName) ==
    JsOr(JsOr(Field(table[serverName], "startingPort"),
              Field(cfg.multiCore, "startingPort")),
         Num(3001))

\* serverConfig?.useNginx || globalConfig?.useNginx || false
shouldUseNginx(cfg, table, serverName) ==
    JsOr(JsOr(Field(table[serverName], "useNginx"), Field(cfg.multiCore, "useNginx")),
         Bool(FALSE))

\* prepareConfig: the table is rebuilt from the per-server multiCore keys ...
prepareConfigTable(cfg) ==
    [s \in ServerNames |->
        IF cfg.servers[s].present /\ cfg.servers[s].multiCore.present
        THEN cfg.servers[s].multiCore ELSE NoSettings]

\* ... and each key is deleted from the configuration object.
prepareConfigObject(cfg) ==
    [cfg EXCEPT !.servers =
        [s \in ServerNames |->
            IF cfg.servers[s].present
            THEN [cfg.servers[s] EXCEPT !.multiCore = NoSettings]
            ELSE cfg.servers[s]]]

(***************************************************************************)
(* The validators.  An entry of the list a validator returns is held as    *)
(* its path (scope and field) and its message.                             *)
(***************************************************************************)
Detail(scope, field, message) == [scope |-> scope, field |-> field, message |-> message]

\* if (multiCore.instances !== undefined) { ... }
instancesDetails(x, scope) ==
    IF x = Undef THEN <<>>
    ELSE IF TypeOf(x) # "string" /\ TypeOf(x) # "number"
    THEN <<Detail(scope, "instances", "instances must be \"auto\" or a number")>>
    ELSE IF TypeOf(x) = "string" /\ x # Auto
    THEN <<Detail(scope, "instances", "instances string value must be \"auto\"")>>
    ELSE IF TypeOf(x) = "number" /\ JsLt(x, Num(1))
    THEN <<Detail(scope, "instances", "instances must be at least 1")>>
    ELSE <<>>

\* if (multiCore.startingPort !== undefined) { ... }
startingPortDetails(x, scope) ==
    IF x = Undef THEN <<>>
    ELSE IF TypeOf(x) # "number"
    THEN <<Detail(scope, "startingPort", "startingPort must be a number")>>
    ELSE IF JsLt(x, Num(1024)) \/ JsLt(Num(65535), x)
    THEN <<Detail(scope, "startingPort", "startingPort must be between 1024 and 65535")>>
    ELSE <<>>

\* if (multiCore.useNginx !== undefined) { ... }
useNginxDetails(x, scope) ==
    IF x = Undef THEN <<>>
    ELSE IF TypeOf(x) # "boolean"
    THEN <<Detail(scope, "useNginx", "useNginx must be a boolean")>>
    ELSE <<>>

\* The three field checks, which both validators make in this order.
fieldDetails(multiCore, scope) ==
    instancesDetails(multiCore.instances, scope)
        \o startingPortDetails(multiCore.startingPort, scope)
        \o useNginxDetails(multiCore.useNginx, scope)

\* validate.multiCore(config, utils)
validateMultiCore(cfg) ==
    IF ~cfg.multiCore.present THEN <<>> ELSE fieldDetails(cfg.multiCore, "multiCore")

\* Object.keys(config.app.servers), in the order the model gives the keys
ServerOrder == <<"web1", "web2", "worker1">>

\* validate['app.servers'](config, utils)
RECURSIVE validateServersFrom(_, _)
validateServersFrom(cfg, k) ==
    IF k > Len(ServerOrder) THEN <<>>
    ELSE LET serverConfig == cfg.servers[ServerOrder[k]]
         IN  (IF serverConfig.present /\ serverConfig.multiCore.present
              THEN fieldDetails(serverConfig.multiCore, ServerOrder[k])
              ELSE <<>>) \o validateServersFrom(cfg, k + 1)

validateAppServers(cfg) == validateServersFrom(cfg, 1)

(***************************************************************************)
(* The --servers filter.  A string is held as what split(',') makes of it  *)
(* (never the empty sequence; the empty string splits to one empty name);  *)
(* an array as its elements.                                               *)
(***************************************************************************)
FilterNames == ServerNames \cup {"web9", ""}

NoFilter == [kind |-> "absent", parts |-> <<>>]

\* if (options.servers): undefined and '' are falsy, every array is truthy.
FilterGiven(opt) ==
    CASE opt.kind = "absent" -> FALSE
      [] opt.kind = "string" -> opt.parts # <<"">>
      [] opt.kind = "array"  -> TRUE

\* Mutant of getFilteredServers: the --servers option is not looked at.
getFilteredServersUnfiltered(cfg, opt) == {s \in ServerNames : cfg.servers[s].present}

\* The keys of the object getFilteredServers returns.
getFilteredServers(cfg, opt) ==
    LET allServers == {s \in ServerNames : cfg.servers[s].present}
    IN  IF FilterGiven(opt)
        THEN {opt.parts[k] : k \in 1..Len(opt.parts)} \cap allServers
        ELSE allServers

(***************************************************************************)
(* The remote host.  A container is named by its slot: 0 is the primary     *)
(* (named appName), i >= 1 is appName-worker-i.                             *)
(***************************************************************************)
\* for (let i = 1; i <= 10; i++): the ceiling of the fallback cleanup
FallbackCeiling == 10

\* One slot more than the fallback cleanup names, so that a worker can lie
\* outside its range.
MaxSlot == FallbackCeiling + 1
Slots   == 0..MaxSlot

Absent == [status |-> "absent", port |-> 0]

\* Mutant of WorkerNameFilter: the filter is name=${appName}, which the
\* primary's name matches too.
WorkerNameFilterAppName(slot) == slot >= 0

\* --filter name=${appName}-worker: the names that contain appName-worker
WorkerNameFilter(slot) == slot >= 1

\* The decimal digits of a are a prefix of those of b: appName-worker-a is
\* a substring of appName-worker-b.
RECURSIVE DigitPrefix(_, _)
DigitPrefix(a, b) == a = b \/ (b >= 10 /\ DigitPrefix(a, b \div 10))

\* Mutant of queryWorkers: the query lists running containers only (-q for -aq).
queryWorkersRunningOnly(host) ==
    {i \in Slots : WorkerNameFilter(i) /\ host[i].status = "running"}

\* docker ps -aq --filter name=${appName}-worker, as the inventory query
queryWorkers(host) == {i \in Slots : WorkerNameFilter(i) /\ host[i].status # "absent"}

\* $(docker ps -aq --filter name=${appName}-worker), inside stop, rm, restart
allWorkers(host) == {i \in Slots : WorkerNameFilter(i) /\ host[i].status # "absent"}

\* docker ps -q --filter name=${appName}-worker: running containers only
runningWorkers(host) == {i \in Slots : WorkerNameFilter(i) /\ host[i].status = "running"}

\* docker stop: a running target exits; any other target makes docker fail.
DockerStop(host, targets) ==
    [i \in Slots |->
        IF i \in targets /\ host[i].status = "running"
        THEN [host[i] EXCEPT !.status = "exited"] ELSE host[i]]

\* docker rm (without -f): a target that is not running is removed.
DockerRm(host, targets) ==
    [i \in Slots |->
        IF i \in targets /\ host[i].status = "exited" THEN Absent ELSE host[i]]

\* Mutant of DockerRestart: the targets are removed by force (rm -f for
\* restart).
DockerRestartRemoves(host, targets) ==
    [i \in Slots |-> IF i \in targets THEN Absent ELSE host[i]]

\* docker restart: every target runs again.
DockerRestart(host, targets) ==
    [i \in Slots |->
        IF i \in targets /\ host[i].status # "absent"
        THEN [host[i] EXCEPT !.status = "running"] ELSE host[i]]

PortInUse(host, port) ==
    \E j \in Slots : host[j].status = "running" /\ host[j].port = port

\* docker run -d --name worker-slot -p 127.0.0.1:port:appPort.  A name in
\* use makes docker fail before it creates anything; a host port in use
\* leaves the container created but not running, and docker fails too.
DockerRunFails(host, slot, port) ==
    host[slot].status # "absent" \/ PortInUse(host, port)

DockerRun(host, slot, port) ==
    IF host[slot].status # "absent" THEN host
    ELSE IF PortInUse(host, port)
    THEN [host EXCEPT ![slot] = [status |-> "exited", port |-> port]]
    ELSE [host EXCEPT ![slot] = [status |-> "running", port |-> port]]

\* docker ps --filter name=${containerName}: output.includes(containerName)
\* && output.includes('Up')
StatusUp(host, slot) ==
    \E j \in Slots : j >= 1 /\ DigitPrefix(slot, j) /\ host[j].status = "running"

\* docker ps | grep ${appName}: grep fails when no line matches
GrepFinds(host) == \E j \in Slots : host[j].status = "running"

\* The worker inventory of a host: names (slots) and host ports.
ReplicaInventory(host) ==
    {[slot |-> i, port |-> host[i].port] : i \in {j \in Slots : j >= 1 /\ host[j].status # "absent"}}

(***************************************************************************)
(* detectCores: parseInt(result.output.trim()), or 2 when the probe raises *)
(***************************************************************************)
DigitChars == <<"0", "1", "2", "3", "4", "5", "6", "7", "8", "9">>
IsDigit(c)  == \E d \in 1..10 : DigitChars[d] = c
DigitVal(c) == (CHOOSE d \in 1..10 : DigitChars[d] = c) - 1

RECURSIVE TrimLeft(_)
TrimLeft(str) ==
    IF str # <<>> /\ Head(str) = " " THEN TrimLeft(Tail(str)) ELSE str

RECURSIVE TrimRight(_)
TrimRight(str) ==
    IF str # <<>> /\ str[Len(str)] = " "
    THEN TrimRight(SubSeq(str, 1, Len(str) - 1)) ELSE str

\* String.prototype.trim
Trim(str) == TrimRight(TrimLeft(str))

\* The value of the longest prefix of digits, read after the digits in acc.
RECURSIVE DigitsValue(_, _)
DigitsValue(str, acc) ==
    IF str # <<>> /\ IsDigit(Head(str))
    THEN DigitsValue(Tail(str), 10 * acc + DigitVal(Head(str)))
    ELSE acc

\* parseInt: leading white space is skipped, then the digits are read;
\* NaN when there is none.
ParseInt(str) ==
    LET body == TrimLeft(str)
    IN  IF body # <<>> /\ IsDigit(Head(body)) THEN Num(DigitsValue(body, 0)) ELSE NaN

\* Mutant of detectCores: the fallback is 1 core.
detectCoresFallbackOne(raised, out) == IF raised THEN Num(1) ELSE ParseInt(Trim(out))

\* What detectCores returns: raised is whether runSSHCommand(server, 'nproc')
\* raised, out the output it returned otherwise.
detectCores(raised, out) == IF raised THEN Num(2) ELSE ParseInt(Trim(out))

\* The longest output of the nproc probe drawn.
MaxOutLen == 2
ProbeChars == {DigitChars[d + 1] : d \in 1..MaxCores} \cup {" ", "x"}
ProbeOutputs == UNION {[1..n -> ProbeChars] : n \in 0..MaxOutLen}

(***************************************************************************)
(* Tasks.  A task is one per-server async function of a Promise.all: the   *)
(* invocation it belongs to ("top" for the hook's own call, a server name  *)
(* for the startWorkerContainers call made by that server's restart task)  *)
(* and its server.                                                         *)
(***************************************************************************)
Invs    == {"top"} \cup ServerNames
TaskIds == Invs \X ServerNames

NoPrev == [seen |-> FALSE, clean |-> FALSE, cores |-> Undef, port |-> 0, snap |-> {}]

IdleTask ==
    [fn |-> "idle", pc |-> "none", st |-> "none", cores |-> Undef, port |-> 0,
     i |-> 0, single |-> FALSE, creates |-> <<>>, clean |-> TRUE, warned |-> FALSE,
     inspected |-> FALSE, raised |-> FALSE, found |-> FALSE, looped |-> FALSE,
     list |-> {}, before |-> NoPrev, image |-> "none", sections |-> {}]

NoCmd == [server |-> "", kind |-> "none", targets |-> {}]

Cmd(s, kind, targets) == [NoCmd EXCEPT !.server = s, !.kind = kind, !.targets = targets]

\* The task is over: its promise fulfils, or rejects.
Done(rec)     == [rec EXCEPT !.pc = "done", !.st = "fulfilled", !.i = 0, !.list = {}]
Rejected(rec) == [rec EXCEPT !.pc = "done", !.st = "rejected", !.i = 0, !.list = {},
                             !.clean = FALSE, !.raised = TRUE]

\* A command raised (or a container did not come up).
Failed(rec) == [rec EXCEPT !.clean = FALSE]
Raised(rec) == [rec EXCEPT !.clean = FALSE, !.raised = TRUE]

\* Mutant of StartBranch: the single-core test is cores < 1.
StartBranchStrict(rec) ==
    IF JsLt(rec.cores, Num(1))
    THEN [rec EXCEPT !.pc = "query", !.single = TRUE]
    ELSE [rec EXCEPT !.pc = "inspect"]

\* Mutant of StartBranch: the cores > 1 branch goes to the cleanup without
\* the image inspect.
StartBranchNoInspect(rec) ==
    IF JsLeq(rec.cores, Num(1))
    THEN [rec EXCEPT !.pc = "query", !.single = TRUE]
    ELSE [rec EXCEPT !.pc = "query"]

\* if (cores <= 1) { clean up and return } else { inspect, clean up, create }
StartBranch(rec) ==
    IF JsLeq(rec.cores, Num(1))
    THEN [rec EXCEPT !.pc = "query", !.single = TRUE]
    ELSE [rec EXCEPT !.pc = "inspect"]

\* Mutant of LoopTest: the loop runs to i <= cores.
LoopTestInclusive(i, cores) == JsLeq(Num(i), cores)

\* for (let i = 1; i < cores; i++)
LoopTest(i, cores) == JsLt(Num(i), cores)

LoopEnter(rec, i) ==
    IF LoopTest(i, rec.cores)
    THEN [rec EXCEPT !.pc = "run", !.i = i, !.looped = TRUE]
    ELSE [rec EXCEPT !.pc = "final", !.i = 0, !.looped = TRUE]

\* Mutant of SlotFailed: a slot's failure ends the pass.
SlotFailedEndsPass(rec, i) == Done(Raised(rec))

\* catch (error) inside the create loop: the failure of slot i is logged and
\* the loop goes on with slot i + 1.
SlotFailed(rec, i) == LoopEnter(Raised(rec), i + 1)

\* The cleanup is over.
AfterCleanup(rec) == IF rec.single THEN Done(rec) ELSE LoopEnter(rec, 1)

\* catch (error) { for (let i = 1; i <= 10; i++) ... }
FallbackEnter(rec) == [Raised(rec) EXCEPT !.pc = "fb_stop", !.i = 1]

\* A command of the fallback loop raises: in the cores <= 1 branch nothing
\* catches it, in the other branch the outer catch does.
FallbackRaise(rec) == IF rec.single THEN Rejected(rec) ELSE Done(Raised(rec))

\* Mutant of workerPort: the offset is not taken off.
workerPortOffByOne(startingPort, i) == startingPort + i

\* startingPort + i - 1
workerPort(startingPort, i) == startingPort + i - 1

\* Mutant of NoImage: the pass goes on to its cleanup without an image.
NoImageGoesOn(rec) == [Failed(rec) EXCEPT !.pc = "query", !.image = "empty"]

\* if (!actualImage) { console.log(...Could not detect main container image); return }
NoImage(rec) == [Done(Failed(rec)) EXCEPT !.image = "empty"]

\* The per-server function of startWorkerContainers up to its first await.
StartTask(s, before) ==
    LET instanceCount == getInstanceCount(config, serverConfigs, s)
        startingPort  == getStartingPort(config, serverConfigs, s)
        rec == [IdleTask EXCEPT !.fn = "start", !.st = "pending",
                                !.port = startingPort.v, !.before = before]
    IN  IF instanceCount = Auto
        THEN [rec EXCEPT !.pc = "nproc"]
        ELSE StartBranch([rec EXCEPT !.cores = instanceCount])

\* One remote command of task t on its server: the task goes on as rec, the
\* host becomes newHost, and raised tells whether the command failed for a
\* reason outside the model's hosts (an unreachable host).
Step(t, rec, newHost, cmd, raised) ==
    /\ raised => failures < MaxFailures
    /\ failures' = IF raised THEN failures + 1 ELSE failures
    /\ tasks' = [tasks EXCEPT ![t] = rec]
    /\ containers' = [containers EXCEPT ![t[2]] = newHost]
    /\ lastCmd' = cmd
    /\ UNCHANGED <<procVars, pureVars, nginx, hook, prev>>

Host(t) == containers[t[2]]

\* await detectCores(api, serverName), of startWorkerContainers and updateMupNginx,
\* on a host of at most cap cores
DetectCores(t, cap) ==
    /\ tasks[t].pc = "nproc"
    /\ \E raised \in BOOLEAN, out \in ProbeOutputs :
          LET cores == detectCores(raised, out)
              rec   == [tasks[t] EXCEPT !.cores = cores]
              warn  == [Raised(rec) EXCEPT !.warned = TRUE]
              next  == IF raised THEN warn ELSE rec
          IN  /\ raised => out = <<>>
              /\ cores.t = "number" => cores.v <= cap
              /\ Step(t, IF next.fn = "start" THEN StartBranch(next)
                         ELSE [next EXCEPT !.pc = "n_backup"],
                      Host(t), Cmd(t[2], "nproc", {}), raised)

\* docker inspect ${appName} --format='{{.Image}}'
InspectImage(t) ==
    /\ tasks[t].pc = "inspect"
    /\ LET rec == [tasks[t] EXCEPT !.inspected = TRUE]
           cmd == Cmd(t[2], "inspect", {0})
       IN  \/ /\ Host(t)[0].status # "absent"
              /\ Step(t, [rec EXCEPT !.pc = "query", !.image = "found"], Host(t), cmd, FALSE)
           \/ /\ Host(t)[0].status = "absent"
              /\ Step(t, NoImage(Raised(rec)), Host(t), cmd, FALSE)
           \/ Step(t, [Done(Raised(rec)) EXCEPT !.image = "raised"], Host(t), cmd, TRUE)

\* if (!actualImage) return
InspectEmpty(t) ==
    /\ tasks[t].pc = "inspect"
    /\ Host(t)[0].status # "absent"
    /\ failures < MaxFailures
    /\ failures' = failures + 1
    /\ tasks' = [tasks EXCEPT ![t] = NoImage([@ EXCEPT !.inspected = TRUE])]
    /\ lastCmd' = Cmd(t[2], "inspect", {0})
    /\ UNCHANGED <<procVars, pureVars, hostVars, hook, prev>>

\* const existingWorkers = await ...docker ps -aq --filter name=${appName}-worker
CleanupQuery(t) ==
    /\ tasks[t].pc = "query"
    /\ LET cmd == Cmd(t[2], "ps", {})
       IN  \/ Step(t, IF queryWorkers(Host(t)) # {}
                      THEN [tasks[t] EXCEPT !.pc = "stop", !.found = TRUE]
                      ELSE AfterCleanup(tasks[t]),
                   Host(t), cmd, FALSE)
           \/ Step(t, FallbackEnter(tasks[t]), Host(t), cmd, TRUE)

\* docker stop $(docker ps -aq --filter name=${appName}-worker) || true
CleanupStop(t) ==
    /\ tasks[t].pc = "stop"
    /\ LET cmd == Cmd(t[2], "stop", allWorkers(Host(t)))
       IN  \/ Step(t, [tasks[t] EXCEPT !.pc = "rm"],
                   DockerStop(Host(t), allWorkers(Host(t))), cmd, FALSE)
           \/ Step(t, FallbackEnter(tasks[t]), Host(t), cmd, TRUE)

\* docker rm $(docker ps -aq --filter name=${appName}-worker) || true
CleanupRm(t) ==
    /\ tasks[t].pc = "rm"
    /\ LET cmd == Cmd(t[2], "rm", allWorkers(Host(t)))
       IN  \/ Step(t, AfterCleanup(tasks[t]),
                   DockerRm(Host(t), allWorkers(Host(t))), cmd, FALSE)
           \/ Step(t, FallbackEnter(tasks[t]), Host(t), cmd, TRUE)

\* docker stop ${appName}-worker-${i} || true
FallbackStop(t) ==
    /\ tasks[t].pc = "fb_stop"
    /\ LET cmd == Cmd(t[2], "stop", {tasks[t].i})
       IN  \/ Step(t, [tasks[t] EXCEPT !.pc = "fb_rm"],
                   DockerStop(Host(t), {tasks[t].i}), cmd, FALSE)
           \/ Step(t, FallbackRaise(tasks[t]), Host(t), cmd, TRUE)

\* docker rm ${appName}-worker-${i} || true
FallbackRm(t) ==
    /\ tasks[t].pc = "fb_rm"
    /\ LET cmd == Cmd(t[2], "rm", {tasks[t].i})
       IN  \/ Step(t, IF tasks[t].i < FallbackCeiling
                      THEN [tasks[t] EXCEPT !.pc = "fb_stop", !.i = @ + 1]
                      ELSE AfterCleanup(tasks[t]),
                   DockerRm(Host(t), {tasks[t].i}), cmd, FALSE)
           \/ Step(t, FallbackRaise(tasks[t]), Host(t), cmd, TRUE)

\* The docker run command of slot i: --name, -p 127.0.0.1:port:appPort,
\* -e PORT, -e CORE_ID.
runCmd(s, i, startingPort, appPort) ==
    [server |-> s, kind |-> "run", targets |-> {i}, port |-> workerPort(startingPort, i),
     coreId |-> i, inner |-> appPort]

\* const runResult = await api.runSSHCommand(server, runCmd)
RunWorker(t) ==
    /\ tasks[t].pc = "run"
    /\ LET i    == tasks[t].i
           cmd  == runCmd(t[2], i, tasks[t].port, getAppPort(config).v)
           rec  == [tasks[t] EXCEPT !.creates = Append(@, cmd)]
           fail == DockerRunFails(Host(t), i, cmd.port)
           said == Cmd(t[2], "run", {i})
       IN  \/ /\ ~fail
              /\ Step(t, [rec EXCEPT !.pc = "settle"], DockerRun(Host(t), i, cmd.port),
                      said, FALSE)
           \/ /\ fail
              /\ Step(t, SlotFailed(rec, i), DockerRun(Host(t), i, cmd.port),
                      said, FALSE)
           \/ Step(t, SlotFailed(rec, i), Host(t), said, TRUE)

\* await new Promise(resolve => setTimeout(resolve, 2000)): the container
\* stays up, or exits meanwhile.
Settle(t) ==
    /\ tasks[t].pc = "settle"
    /\ \/ Step(t, [tasks[t] EXCEPT !.pc = "status"], Host(t), NoCmd, FALSE)
       \/ /\ Host(t)[tasks[t].i].status = "running"
          /\ Step(t, [tasks[t] EXCEPT !.pc = "status"],
                  DockerStop(Host(t), {tasks[t].i}), NoCmd, TRUE)

\* docker ps --filter name=${containerName} --format "{{.Names}} {{.Status}}"
StatusCheck(t) ==
    /\ tasks[t].pc = "status"
    /\ LET i   == tasks[t].i
           cmd == Cmd(t[2], "status", {i})
       IN  \/ Step(t, IF StatusUp(Host(t), i)
                      THEN LoopEnter(tasks[t], i + 1)
                      ELSE [Failed(tasks[t]) EXCEPT !.pc = "logs"],
                   Host(t), cmd, FALSE)
           \/ Step(t, SlotFailed(tasks[t], i), Host(t), cmd, TRUE)

\* docker logs ${containerName} 2>&1 || echo "Container not found"
WorkerLogs(t) ==
    /\ tasks[t].pc = "logs"
    /\ LET i   == tasks[t].i
           cmd == Cmd(t[2], "logs", {i})
       IN  \/ Step(t, [tasks[t] EXCEPT !.pc = "images"], Host(t), cmd, FALSE)
           \/ Step(t, SlotFailed(tasks[t], i), Host(t), cmd, TRUE)

\* docker images ${actualImage} --format "{{.Repository}}:{{.Tag}}"
ImageCheck(t) ==
    /\ tasks[t].pc = "images"
    /\ LET i   == tasks[t].i
           cmd == Cmd(t[2], "images", {})
       IN  \/ Step(t, LoopEnter(tasks[t], i + 1), Host(t), cmd, FALSE)
           \/ Step(t, SlotFailed(tasks[t], i), Host(t), cmd, TRUE)

\* const status = await api.runSSHCommand(server, `docker ps | grep ${appName}`)
FinalStatus(t) ==
    /\ tasks[t].pc = "final"
    /\ LET cmd == Cmd(t[2], "grep", {})
       IN  \/ /\ GrepFinds(Host(t))
              /\ Step(t, Done(tasks[t]), Host(t), cmd, FALSE)
           \/ /\ ~GrepFinds(Host(t))
              /\ Step(t, Done(Raised(tasks[t])), Host(t), cmd, FALSE)
           \/ Step(t, Done(Raised(tasks[t])), Host(t), cmd, TRUE)

(***************************************************************************)
(* The process: mup loads the configuration, calls prepareConfig, runs one *)
(* hook or command, and exits.                                             *)
(***************************************************************************)
Config(mc, servers, docker, port) ==
    [multiCore |-> mc, servers |-> servers, docker |-> docker, port |-> port]

EmptyTable == [s \in ServerNames |-> NoSettings]
NoHook     == [name |-> "none", stage |-> "none"]
\* no process runs
OffHook    == [name |-> "off", stage |-> "none"]
BlankConfig == Config(NoSettings, [s \in ServerNames |-> NoServer], FALSE, Undef)
IdleTasks  == [t \in TaskIds |-> IdleTask]
NoEffective == [s \in ServerNames |-> [resolved |-> FALSE, instances |-> Undef,
                                       startingPort |-> Undef, useNginx |-> Undef]]
NoSelection == [computed |-> FALSE, names |-> {}]
NoDetails   == [ran |-> FALSE, prepared |-> FALSE, multiCore |-> <<>>, servers |-> <<>>]
NoPrevs     == [s \in ServerNames |-> NoPrev]

EmptyHost == [i \in Slots |-> Absent]
NoNginx   == [backup |-> FALSE, staged |-> <<>>, patched |-> FALSE, conf |-> <<>>,
              live |-> <<>>]

\* The primary, as mup runs it: published on the application's port.
Primary(cfg) == [status |-> "running", port |-> getAppPort(cfg).v]

\* prepareConfig(config)
PrepareConfig ==
    /\ hook = NoHook
    /\ ~prepared
    /\ prepared' = TRUE
    /\ serverConfigs' = prepareConfigTable(config)
    /\ config' = prepareConfigObject(config)
    /\ UNCHANGED <<loaded, options, pureVars, hostVars, runVars>>

\* Object.keys(serversToProcess)
Selected == getFilteredServers(config, options)

\* What the last start pass of each server left, kept for the next process.
RecordPrev ==
    [s \in ServerNames |->
        LET rec == tasks[<<"top", s>>]
        IN  IF rec.fn # "start" THEN prev[s]
            ELSE IF rec.clean
            THEN [seen |-> TRUE, clean |-> TRUE, cores |-> rec.cores, port |-> rec.port,
                  snap |-> ReplicaInventory(containers[s])]
            ELSE [NoPrev EXCEPT !.seen = TRUE]]

\* The lines of the upstream text: 'upstream meteor_backend {', one
\* '  server 127.0.0.1:port;' per address, '}'.
UpstreamOpen       == [line |-> "upstream", name |-> "meteor_backend", host |-> "", port |-> 0]
UpstreamServer(p)  == [line |-> "server", name |-> "", host |-> "127.0.0.1", port |-> p]
UpstreamClose      == [line |-> "}", name |-> "", host |-> "", port |-> 0]

\* for (let i = 1; i < cores; i++) upstream += server 127.0.0.1:startingPort+i-1
RECURSIVE upstreamWorkers(_, _, _)
upstreamWorkers(startingPort, cores, i) ==
    IF LoopTest(i, cores)
    THEN <<UpstreamServer(workerPort(startingPort, i))>>
            \o upstreamWorkers(startingPort, cores, i + 1)
    ELSE <<>>

\* Mutant of upstreamBlock: the primary's line is left out.
upstreamBlockWorkersOnly(appPort, startingPort, cores) ==
    <<UpstreamOpen>> \o upstreamWorkers(startingPort, cores, 1) \o <<UpstreamClose>>

\* let upstream = ...: the block, the primary's address first
upstreamBlock(appPort, startingPort, cores) ==
    <<UpstreamOpen, UpstreamServer(appPort)>> \o upstreamWorkers(startingPort, cores, 1)
        \o <<UpstreamClose>>

\* The per-server function of updateMupNginx up to its first await.
NginxTask(s) ==
    LET instanceCount == getInstanceCount(config, serverConfigs, s)
        startingPort  == getStartingPort(config, serverConfigs, s)
        rec == [IdleTask EXCEPT !.fn = "nginx", !.st = "pending", !.port = startingPort.v]
    IN  IF ~Truthy(shouldUseNginx(config, serverConfigs, s)) THEN Done(rec)
        ELSE IF instanceCount = Auto THEN [rec EXCEPT !.pc = "nproc"]
        ELSE [rec EXCEPT !.cores = instanceCount, !.pc = "n_backup"]

StopTask    == [IdleTask EXCEPT !.fn = "stop", !.st = "pending", !.pc = "t_query"]
RestartTask == [IdleTask EXCEPT !.fn = "restart", !.st = "pending", !.pc = "r_query"]
\* Mutant of LogsTask: the handler of the command is stopWorkerContainers.
LogsTaskStops == [IdleTask EXCEPT !.fn = "stop", !.st = "pending", !.pc = "t_query"]

LogsTask    == [IdleTask EXCEPT !.fn = "logs", !.st = "pending", !.pc = "l_main"]

Hooks == {"deploy", "start", "restart", "stop", "logs"}

TaskFor(h, s) ==
    CASE h \in {"deploy", "start"} -> StartTask(s, prev[s])
      [] h = "restart"             -> RestartTask
      [] h = "stop"                -> StopTask
      [] h = "logs"                -> LogsTask

\* The hook's top-level call: one task per selected server.
TopTasks(h) ==
    [t \in TaskIds |->
        IF t[1] = "top" /\ t[2] \in Selected THEN TaskFor(h, t[2]) ELSE IdleTask]

\* Object.keys(serversToProcess).some(serverName => shouldUseNginx(config, serverName))
needsNginx == \E s \in Selected : Truthy(shouldUseNginx(config, serverConfigs, s))

\* mup's own lifecycle step, which the post hook follows: the primary runs
\* after deploy, start and restart, and is gone after stop.
MupLifecycle(h) ==
    [s \in ServerNames |->
        IF s \notin Selected \/ h = "logs" THEN containers[s]
        ELSE [containers[s] EXCEPT ![0] = IF h = "stop" THEN Absent ELSE Primary(config)]]

\* The blocks the model lets nginx.conf hold.
MaxBlocks == 1

\* Mutant of HookRuns: the hook calls its function without the test.
HookRunsAlways(h) == TRUE

\* if (config.app && config.app.docker), the test of each of the four hooks;
\* the logs command has none.
HookRuns(h) == config.docker \/ h = "logs"

\* hooks['post.default.deploy' | 'post.default.start' | 'post.default.restart' |
\* 'post.default.stop'](api), and commands.logs.handler(api); a deploy is
\* run while nginx.conf holds fewer than blocks upstream blocks.
Invoke(h, blocks) ==
    /\ prepared
    /\ hook.name = "none"
    /\ h = "deploy" => \A s \in ServerNames : Len(nginx[s].conf) < blocks
    /\ containers' = MupLifecycle(h)
    /\ IF HookRuns(h)
       THEN /\ hook' = [name |-> h,
                        stage |-> IF h = "deploy" /\ needsNginx THEN "start" ELSE "run"]
            /\ tasks' = TopTasks(h)
       ELSE /\ hook' = [name |-> h, stage |-> "done"]
            /\ tasks' = tasks
    /\ prev' = IF h \in {"start", "deploy"} THEN prev ELSE NoPrevs
    /\ lastCmd' = NoCmd
    /\ UNCHANGED <<procVars, pureVars, nginx, failures>>

InvokeHook(h) == Invoke(h, MaxBlocks)

\* Mutant of Pending: nothing is waited for.
PendingNever == FALSE

Pending     == \E t \in TaskIds : tasks[t].st = "pending"
TopRejected == \E s \in ServerNames : tasks[<<"top", s>>].st = "rejected"

\* startWorkerContainers(api).then(() => updateMupNginx(api)): the first
\* Promise.all has fulfilled.
DeployThen ==
    /\ hook = [name |-> "deploy", stage |-> "start"]
    /\ ~Pending
    /\ ~TopRejected
    /\ hook' = [hook EXCEPT !.stage = "nginx"]
    /\ tasks' = [t \in TaskIds |->
                    IF t[1] = "top" /\ t[2] \in Selected THEN NginxTask(t[2]) ELSE IdleTask]
    /\ prev' = NoPrevs
    /\ lastCmd' = NoCmd
    /\ UNCHANGED <<procVars, pureVars, hostVars, failures>>

\* Every task has settled and no stage is left to launch.
HookOver ==
    /\ hook.name \notin {"none", "off"}
    /\ ~Pending
    /\ hook.stage = "start" => TopRejected

\* Mutant of NginxStep: a step that raised is logged and the chain goes on.
NginxStepGoesOn(t, pc, next, cmd, swallowed) ==
    /\ tasks[t].fn = "nginx"
    /\ tasks[t].pc = pc
    /\ \/ /\ tasks' = [tasks EXCEPT ![t] =
                          IF swallowed = "done" THEN Done(@) ELSE [@ EXCEPT !.pc = swallowed]]
          /\ nginx' = [nginx EXCEPT ![t[2]] = next]
          /\ failures' = failures
       \/ /\ failures < MaxFailures
          /\ failures' = failures + 1
          /\ tasks' = [tasks EXCEPT ![t] =
                          IF swallowed = "done" THEN Done(Raised(@))
                          ELSE [Raised(@) EXCEPT !.pc = swallowed]]
          /\ nginx' = nginx
    /\ lastCmd' = Cmd(t[2], cmd, {})
    /\ UNCHANGED <<procVars, pureVars, containers, hook, prev>>

\* One remote command of the nginx task t: the server's nginx files become
\* next.
NginxStep(t, pc, next, cmd, swallowed) ==
    /\ tasks[t].fn = "nginx"
    /\ tasks[t].pc = pc
    /\ \/ /\ tasks' = [tasks EXCEPT ![t] =
                          IF swallowed = "done" THEN Done(@) ELSE [@ EXCEPT !.pc = swallowed]]
          /\ nginx' = [nginx EXCEPT ![t[2]] = next]
          /\ failures' = failures
       \/ /\ failures < MaxFailures
          /\ failures' = failures + 1
          /\ tasks' = [tasks EXCEPT ![t] = Done(Raised(@))]
          /\ nginx' = nginx
    /\ lastCmd' = Cmd(t[2], cmd, {})
    /\ UNCHANGED <<procVars, pureVars, containers, hook, prev>>

\* sudo cp /opt/${appName}/config/env.list /tmp/${appName}.env.backup
NginxBackup(t) ==
    NginxStep(t, "n_backup", [nginx[t[2]] EXCEPT !.backup = TRUE], "cp", "n_write")

\* cat > /tmp/${appName}-upstream.conf << 'EOF' ${upstream} EOF
NginxWrite(t) ==
    NginxStep(t, "n_write",
              [nginx[t[2]] EXCEPT !.staged =
                    upstreamBlock(getAppPort(config).v, tasks[t].port, tasks[t].cores)],
              "cat", "n_site")

\* sed -i 's/proxy_pass.*${appPort};/proxy_pass http:\/\/meteor_backend;/g'
NginxSite(t) ==
    NginxStep(t, "n_site", [nginx[t[2]] EXCEPT !.patched = TRUE], "sed-site", "n_conf")

\* sed -i '/http {/r /tmp/${appName}-upstream.conf' /etc/nginx/nginx.conf || true:
\* the staged block is read in after the http { line, above what was there.
NginxConf(t) ==
    NginxStep(t, "n_conf", [nginx[t[2]] EXCEPT !.conf = <<nginx[t[2]].staged>> \o @],
              "sed-conf", "n_reload")

\* nginx -t passes when the upstream is defined once.
NginxTest(files) == Len(files.conf) <= 1

\* sudo nginx -t && sudo systemctl reload nginx || true
NginxReload(t) ==
    NginxStep(t, "n_reload",
              [nginx[t[2]] EXCEPT !.live = IF NginxTest(nginx[t[2]]) THEN nginx[t[2]].conf
                                           ELSE @],
              "reload", "done")

\* const workerList = await ...docker ps -q --filter name=${appName}-worker
StopQuery(t) ==
    /\ tasks[t].pc = "t_query"
    /\ LET cmd == Cmd(t[2], "ps", {})
       IN  \/ Step(t, IF runningWorkers(Host(t)) # {}
                      THEN [tasks[t] EXCEPT !.pc = "t_stop", !.found = TRUE]
                      ELSE Done(tasks[t]),
                   Host(t), cmd, FALSE)
           \/ Step(t, Done(Raised(tasks[t])), Host(t), cmd, TRUE)

\* docker stop $(docker ps -q --filter name=${appName}-worker)
StopStop(t) ==
    /\ tasks[t].pc = "t_stop"
    /\ LET cmd == Cmd(t[2], "stop", runningWorkers(Host(t)))
       IN  \/ Step(t, [tasks[t] EXCEPT !.pc = "t_rm"],
                   DockerStop(Host(t), runningWorkers(Host(t))), cmd, FALSE)
           \/ Step(t, Done(Raised(tasks[t])), Host(t), cmd, TRUE)

\* docker rm $(docker ps -aq --filter name=${appName}-worker)
StopRm(t) ==
    /\ tasks[t].pc = "t_rm"
    /\ LET cmd == Cmd(t[2], "rm", allWorkers(Host(t)))
       IN  \/ Step(t, Done(tasks[t]), DockerRm(Host(t), allWorkers(Host(t))), cmd, FALSE)
           \/ Step(t, Done(Raised(tasks[t])), Host(t), cmd, TRUE)

\* Mutant of NestedStart: the restart task calls restartWorkerContainers(api)
\* again where it calls startWorkerContainers(api).
NestedRestart(t) ==
    [u \in TaskIds |->
        IF u = t THEN [tasks[t] EXCEPT !.pc = "r_await"]
        ELSE IF u[1] = t[2] /\ u[2] \in Selected THEN RestartTask
        ELSE tasks[u]]

\* The tasks of the startWorkerContainers(api) call a restart task makes:
\* one per selected server, in the invocation named after the caller.
NestedStart(t) ==
    [u \in TaskIds |->
        IF u = t THEN [tasks[t] EXCEPT !.pc = "r_await"]
        ELSE IF u[1] = t[2] /\ u[2] \in Selected THEN StartTask(u[2], NoPrev)
        ELSE tasks[u]]

\* const workerList = await ...docker ps -aq --filter name=${appName}-worker,
\* and, when it is empty, return startWorkerContainers(api)
RestartQuery(t) ==
    /\ tasks[t].pc = "r_query"
    /\ LET cmd == Cmd(t[2], "ps", {})
       IN  \/ /\ queryWorkers(Host(t)) # {}
              /\ Step(t, [tasks[t] EXCEPT !.pc = "r_restart", !.found = TRUE],
                      Host(t), cmd, FALSE)
           \/ /\ queryWorkers(Host(t)) = {}
              /\ tasks' = NestedStart(t)
              /\ lastCmd' = cmd
              /\ UNCHANGED <<procVars, pureVars, hostVars, hook, failures, prev>>
           \/ Step(t, Done(Raised(tasks[t])), Host(t), cmd, TRUE)

\* docker restart $(docker ps -aq --filter name=${appName}-worker)
RestartCmd(t) ==
    /\ tasks[t].pc = "r_restart"
    /\ LET cmd == Cmd(t[2], "restart", allWorkers(Host(t)))
       IN  \/ Step(t, Done(tasks[t]), DockerRestart(Host(t), allWorkers(Host(t))),
                   cmd, FALSE)
           \/ Step(t, Done(Raised(tasks[t])), Host(t), cmd, TRUE)

\* The promise startWorkerContainers(api) returned settles, and the restart
\* task's promise with it: Promise.all rejects with the first rejection, and
\* fulfils when every task has.
RestartAwait(t) ==
    /\ tasks[t].pc = "r_await"
    /\ LET nested == {tasks[<<t[2], s>>] : s \in Selected}
       IN  \/ /\ \E n \in nested : n.st = "rejected"
              /\ tasks' = [tasks EXCEPT ![t] = Rejected(@)]
           \/ /\ \A n \in nested : n.st = "fulfilled"
              /\ tasks' = [tasks EXCEPT ![t] = Done(@)]
    /\ lastCmd' = NoCmd
    /\ UNCHANGED <<procVars, pureVars, hostVars, hook, failures, prev>>

\* The output of docker logs --tail=n name 2>&1 || true: what the container
\* wrote lately, which may be nothing; for a name docker does not know, the
\* error message of docker, which 2>&1 sends to the output.
LogsOutput(host, slot) ==
    IF host[slot].status = "absent" THEN {"error"} ELSE {"", "text"}

\* if (mainLogs.output) { console.log(`=== ... ===`); console.log(output) }
Section(rec, slot, out) == IF out # "" THEN [rec EXCEPT !.sections = @ \cup {slot}] ELSE rec

\* const mainLogs = await ...docker logs --tail=50 ${appName} 2>&1 || true
LogsMain(t) ==
    /\ tasks[t].pc = "l_main"
    /\ LET cmd == Cmd(t[2], "logs", {0})
       IN  \/ \E out \in LogsOutput(Host(t), 0) :
                Step(t, [Section(tasks[t], 0, out) EXCEPT !.pc = "l_list"], Host(t), cmd, FALSE)
           \/ Step(t, Done(Raised(tasks[t])), Host(t), cmd, TRUE)

\* workerNames[0], of the names docker lists
FirstWorker(list) == CHOOSE i \in list : \A j \in list : i <= j

\* const workers = await ...docker ps --filter name=${appName}-worker
\*                                    --format "{{.Names}}" || true
LogsList(t) ==
    /\ tasks[t].pc = "l_list"
    /\ LET cmd  == Cmd(t[2], "ps", {})
           list == runningWorkers(Host(t))
       IN  \/ Step(t, IF list # {}
                      THEN [tasks[t] EXCEPT !.pc = "l_worker", !.list = list,
                                            !.found = TRUE]
                      ELSE Done(tasks[t]),
                   Host(t), cmd, FALSE)
           \/ Step(t, Done(Raised(tasks[t])), Host(t), cmd, TRUE)

\* const workerLogs = await ...docker logs --tail=20 ${workerName} 2>&1 || true
LogsWorker(t) ==
    /\ tasks[t].pc = "l_worker"
    /\ LET i    == FirstWorker(tasks[t].list)
           rest == tasks[t].list \ {i}
           cmd  == Cmd(t[2], "logs", {i})
       IN  \/ \E out \in LogsOutput(Host(t), i) :
                LET rec == Section(tasks[t], i, out)
                IN  Step(t, IF rest # {} THEN [rec EXCEPT !.list = rest] ELSE Done(rec),
                         Host(t), cmd, FALSE)
           \/ Step(t, Done(Raised(tasks[t])), Host(t), cmd, TRUE)

\* The process exits: what it held is gone, the hosts stay as they are.
ExitProcess(keep) ==
    /\ HookOver
    /\ loaded' = BlankConfig
    /\ config' = BlankConfig
    /\ options' = NoFilter
    /\ serverConfigs' = EmptyTable
    /\ prepared' = FALSE
    /\ effective' = NoEffective
    /\ selected' = NoSelection
    /\ details' = NoDetails
    /\ hook' = OffHook
    /\ tasks' = IdleTasks
    /\ lastCmd' = NoCmd
    /\ failures' = 0
    /\ prev' = IF keep THEN RecordPrev ELSE NoPrevs
    /\ UNCHANGED hostVars

\* The operator runs mup: a new process loads a configuration and a
\* --servers option of the sets given; the module's table starts empty.
LoadConfig(cfgs, opts) ==
    /\ hook = OffHook
    /\ loaded' \in cfgs
    /\ config' = loaded'
    /\ options' \in opts
    /\ hook' = NoHook
    /\ UNCHANGED <<serverConfigs, prepared, pureVars, hostVars, tasks, lastCmd,
                   failures, prev>>

\* No process runs, and the hosts are in one of the states given.
InitHosts(hosts) ==
    /\ loaded = BlankConfig
    /\ config = BlankConfig
    /\ options = NoFilter
    /\ serverConfigs = EmptyTable
    /\ prepared = FALSE
    /\ effective = NoEffective
    /\ selected = NoSelection
    /\ details = NoDetails
    /\ containers \in hosts
    /\ nginx = [s \in ServerNames |-> NoNginx]
    /\ hook = OffHook
    /\ tasks = IdleTasks
    /\ lastCmd = NoCmd
    /\ failures = 0
    /\ prev = NoPrevs

(***************************************************************************)
(* SpecPass: start passes on one server, for every desired core count and  *)
(* starting port and every prior worker inventory.                         *)
(***************************************************************************)
OnlyServers(names) ==
    [s \in ServerNames |->
        IF s \in names THEN [present |-> TRUE, multiCore |-> NoSettings] ELSE NoServer]

PassInstances == {Undef} \cup {Num(k) : k \in 1..MaxCores}
PassPorts     == {Undef, Num(3005)}
PassConfigs ==
    {Config(Settings(i, p, Undef), OnlyServers({"web1"}), TRUE, Undef) :
        i \in PassInstances, p \in PassPorts}

\* A prior worker: absent, running or exited, published as a pass with the
\* starting port base would have published it.
PriorWorker(base, i) ==
    {Absent, [status |-> "running", port |-> workerPort(base, i)],
             [status |-> "exited", port |-> workerPort(base, i)]}

\* One slot more than any pass of the configurations creates, so that a
\* stale worker can lie outside the desired range.
PriorSlots == 1..MaxCores

PriorHosts(cfg) ==
    UNION {{[i \in Slots |-> IF i = 0 THEN Primary(cfg)
                             ELSE IF i \in PriorSlots THEN w[i] ELSE Absent] :
                w \in {v \in [PriorSlots -> UNION {PriorWorker(base, i) : i \in PriorSlots}] :
                            \A i \in PriorSlots : v[i] \in PriorWorker(base, i)}} :
           base \in {3001, 3005}}

PassHosts ==
    {[s \in ServerNames |-> IF s = "web1" THEN h ELSE EmptyHost] :
        h \in PriorHosts(Config(NoSettings, OnlyServers({"web1"}), TRUE, Undef))}

InitPass == InitHosts(PassHosts)

StartStep(t, cap) ==
    \/ DetectCores(t, cap)
    \/ InspectImage(t)
    \/ InspectEmpty(t)
    \/ CleanupQuery(t)
    \/ CleanupStop(t)
    \/ CleanupRm(t)
    \/ FallbackStop(t)
    \/ FallbackRm(t)
    \/ RunWorker(t)
    \/ Settle(t)
    \/ StatusCheck(t)
    \/ WorkerLogs(t)
    \/ ImageCheck(t)
    \/ FinalStatus(t)

NextPass ==
    \/ LoadConfig(PassConfigs, {NoFilter})
    \/ PrepareConfig
    \/ InvokeHook("start")
    \/ \E t \in TaskIds : StartStep(t, MaxCores)
    \/ ExitProcess(TRUE)

SpecPass == InitPass /\ [][NextPass]_vars

(***************************************************************************)
(* SpecConfig: the three getters on every validated configuration of one   *)
(* server's overrides and the global settings.                             *)
(***************************************************************************)
\* The settings the getters return for server s, after prepareConfig.
ResolveSettings(s) ==
    /\ hook = NoHook
    /\ prepared
    /\ config.servers[s].present
    /\ ~effective[s].resolved
    /\ effective' = [effective EXCEPT ![s] =
            [resolved     |-> TRUE,
             instances    |-> getInstanceCount(config, serverConfigs, s),
             startingPort |-> getStartingPort(config, serverConfigs, s),
             useNginx     |-> shouldUseNginx(config, serverConfigs, s)]]
    /\ UNCHANGED <<procVars, selected, details, hostVars, runVars>>

\* Every multiCore object the validators accept, over a few values a field.
ValidSettings ==
    {NoSettings} \cup
    {Settings(i, p, n) : i \in {Undef, Auto, Num(1), Num(MaxCores)},
                         p \in {Undef, Num(1024), Num(3005), Num(65535)},
                         n \in {Undef, Bool(TRUE), Bool(FALSE)}}

ConfigConfigs ==
    {Config(g, [s \in ServerNames |->
                    CASE s = "web1"    -> [present |-> TRUE, multiCore |-> m]
                      [] s = "worker1" -> [present |-> TRUE, multiCore |-> NoSettings]
                      [] OTHER         -> NoServer],
            TRUE, Undef) : g \in ValidSettings, m \in ValidSettings}

NoHosts == {[s \in ServerNames |-> EmptyHost]}

InitConfig == InitHosts(NoHosts)

NextConfig ==
    \/ LoadConfig(ConfigConfigs, {NoFilter})
    \/ PrepareConfig
    \/ \E s \in ServerNames : ResolveSettings(s)

SpecConfig == InitConfig /\ [][NextConfig]_vars

\* The precedence the spec states for one field: the per-server value when
\* defined, else the global value when defined, else the default.
Precedence(perServer, global, f, default) ==
    IF Field(perServer, f) # Undef THEN Field(perServer, f)
    ELSE IF Field(global, f) # Undef THEN Field(global, f)
    ELSE default

\* C1: for every server and every field, the value the getters return is the
\* per-server value when defined, else the global value when defined, else the
\* default ('auto', 3001, false).
C1_EffectiveFollowsPrecedence ==
    \A s \in ServerNames :
        effective[s].resolved =>
            LET mine == loaded.servers[s].multiCore
            IN  /\ effective[s].instances =
                        Precedence(mine, loaded.multiCore, "instances", Auto)
                /\ effective[s].startingPort =
                        Precedence(mine, loaded.multiCore, "startingPort", Num(3001))
                /\ effective[s].useNginx =
                        Precedence(mine, loaded.multiCore, "useNginx", Bool(FALSE))

(***************************************************************************)
(* SpecFilter: getFilteredServers on every inventory and --servers value.  *)
(***************************************************************************)
ComputeSelection ==
    /\ hook = NoHook
    /\ ~selected.computed
    /\ selected' = [computed |-> TRUE, names |-> getFilteredServers(config, options)]
    /\ UNCHANGED <<procVars, effective, details, hostVars, runVars>>

SeqsUpTo(S, lo, hi) == UNION {[1..n -> S] : n \in lo..hi}

FilterOptions ==
    {NoFilter}
    \cup {[kind |-> "string", parts |-> p] : p \in SeqsUpTo(FilterNames, 1, MaxFilterLen)}
    \cup {[kind |-> "array", parts |-> p] : p \in SeqsUpTo(FilterNames, 0, MaxFilterLen)}

FilterConfigs ==
    {Config(NoSettings, OnlyServers(names), TRUE, Undef) : names \in SUBSET ServerNames}

InitFilter == InitHosts(NoHosts)

NextFilter ==
    \/ LoadConfig(FilterConfigs, FilterOptions)
    \/ PrepareConfig
    \/ ComputeSelection

SpecFilter == InitFilter /\ [][NextFilter]_vars

\* The filter is absent or empty: undefined, the empty string, the empty array.
FilterEmpty(opt) ==
    \/ opt.kind = "absent"
    \/ opt.kind = "string" /\ opt.parts = <<"">>
    \/ opt.kind = "array" /\ opt.parts = <<>>

\* C7: getFilteredServers returns the servers of the inventory named in the
\* filter, dropping unknown names, and all servers for an absent or empty
\* filter (undefined, '' or []); the inventory is not changed.
C7_FilterSelectsNamedServers ==
    selected.computed =>
        LET all == {s \in ServerNames : loaded.servers[s].present}
        IN  /\ selected.names =
                    IF FilterEmpty(options) THEN all
                    ELSE {options.parts[k] : k \in 1..Len(options.parts)} \cap all
            /\ \A s \in ServerNames : config.servers[s].present = loaded.servers[s].present

(***************************************************************************)
(* Spec: every hook and the logs command, on two servers of which the      *)
(* --servers option selects web1, with processes following one another on  *)
(* the same hosts.  The hosts have one or two cores.                       *)
(***************************************************************************)
HookServers(n) ==
    [s \in ServerNames |->
        CASE s = "web1"    -> [present |-> TRUE, multiCore |-> Settings(Undef, Undef, n)]
          [] s = "worker1" -> [present |-> TRUE, multiCore |-> NoSettings]
          [] OTHER         -> NoServer]

HookConfigs ==
    {Config(Settings(i, Undef, Undef), HookServers(n), d, Undef) :
        i \in {Undef, Num(1)}, n \in {Undef, Bool(TRUE)}, d \in BOOLEAN}

HookOptions == {[kind |-> "array", parts |-> <<"web1">>]}

Init == InitHosts(NoHosts)

TaskStep(t) ==
    \/ StartStep(t, 2)
    \/ NginxBackup(t)
    \/ NginxWrite(t)
    \/ NginxSite(t)
    \/ NginxConf(t)
    \/ NginxReload(t)
    \/ StopQuery(t)
    \/ StopStop(t)
    \/ StopRm(t)
    \/ RestartQuery(t)
    \/ RestartCmd(t)
    \/ RestartAwait(t)
    \/ LogsMain(t)
    \/ LogsList(t)
    \/ LogsWorker(t)

Next ==
    \/ LoadConfig(HookConfigs, HookOptions)
    \/ PrepareConfig
    \/ \E h \in Hooks : InvokeHook(h)
    \/ DeployThen
    \/ \E t \in TaskIds : TaskStep(t)
    \/ ExitProcess(FALSE)

Spec == Init /\ [][Next]_vars

(***************************************************************************)
(* Claims about one start pass (SpecPass).                                 *)
(***************************************************************************)
TopTask(s)  == tasks[<<"top", s>>]
PassDone(s) == TopTask(s).fn = "start" /\ TopTask(s).pc = "done"
WorkerSlots(s) == {r.slot : r \in ReplicaInventory(containers[s])}

\* C2: after a start pass in which every remote command succeeded and every
\* started container reported running, the worker inventory of the server is
\* exactly the slots 1..desiredCores-1, whatever workers were there before.
C2_InventoryIsDesiredSlots ==
    \A s \in ServerNames :
        (PassDone(s) /\ TopTask(s).clean /\ TopTask(s).cores.t = "number")
            => WorkerSlots(s) = 1..(TopTask(s).cores.v - 1)

\* A clean pass for three or more cores that found and removed prior workers.
C2_Witness ==
    \E s \in ServerNames :
        /\ PassDone(s) /\ TopTask(s).clean /\ TopTask(s).found
        /\ TopTask(s).cores.t = "number" /\ TopTask(s).cores.v >= 3
        /\ WorkerSlots(s) = 1..(TopTask(s).cores.v - 1)

\* The desired state of this pass is that of the pass before it on the same
\* server, and every command of both passes succeeded.
SecondOfTwo(s) ==
    /\ PassDone(s) /\ TopTask(s).clean
    /\ TopTask(s).before.seen /\ TopTask(s).before.clean
    /\ TopTask(s).before.cores = TopTask(s).cores
    /\ TopTask(s).before.port = TopTask(s).port

\* C3: a second start pass with the desired state unchanged leaves the worker
\* inventory (names and host ports) the first pass left.
C3_SecondPassSameInventory ==
    \A s \in ServerNames :
        SecondOfTwo(s) => ReplicaInventory(containers[s]) = TopTask(s).before.snap

\* A second pass for two or more cores, so that the inventory is not empty.
C3_Witness ==
    \E s \in ServerNames :
        /\ SecondOfTwo(s)
        /\ TopTask(s).cores.t = "number" /\ TopTask(s).cores.v >= 2
        /\ ReplicaInventory(containers[s]) # {}

\* C5: a completed start pass that resolved desiredCores <= 1 issued no image
\* inspect and no create command, and if none of its commands raised (the
\* host was reachable) no worker container is left, running or exited.
C5_SingleCoreLeavesNoWorker ==
    \A s \in ServerNames :
        (PassDone(s) /\ JsLeq(TopTask(s).cores, Num(1)))
            => /\ TopTask(s).creates = <<>>
               /\ ~TopTask(s).inspected
               /\ ~TopTask(s).raised => ReplicaInventory(containers[s]) = {}

\* The pass before created workers for more than one core, and this pass
\* found them and removed them.
C5_Witness ==
    \E s \in ServerNames :
        /\ PassDone(s) /\ JsLeq(TopTask(s).cores, Num(1)) /\ ~TopTask(s).raised
        /\ TopTask(s).before.clean /\ JsLt(Num(1), TopTask(s).before.cores)
        /\ TopTask(s).before.snap # {}
        /\ TopTask(s).found
        /\ ReplicaInventory(containers[s]) = {}

\* The create commands the spec gives for c cores and starting port p: slot i
\* of 1..c-1 in ascending order, published on p + i - 1, CORE_ID i.
ExpectedCreates(s, cores, p, inner) ==
    [i \in 1..(IF cores.t = "number" /\ cores.v > 1 THEN cores.v - 1 ELSE 0) |->
        [server |-> s, kind |-> "run", targets |-> {i}, port |-> p + i - 1,
         coreId |-> i, inner |-> inner]]

IsPrefix(a, b) == Len(a) <= Len(b) /\ \A k \in 1..Len(a) : a[k] = b[k]

\* C6: the create commands of a pass are, in order, those of slots 1..c-1,
\* each with name appName-worker-i, host port p+i-1 mapped to the primary's
\* internal port, and CORE_ID i: at any moment a prefix of that list, the whole
\* list once the pass has gone through its create loop, none when c <= 1.
C6_CreatesAreTheSlots ==
    \A s \in ServerNames :
        TopTask(s).fn = "start" /\ TopTask(s).pc # "nproc" =>
            LET want == ExpectedCreates(s, TopTask(s).cores, TopTask(s).port,
                                        getAppPort(config).v)
            IN  /\ IsPrefix(TopTask(s).creates, want)
                /\ (PassDone(s) /\ TopTask(s).looped) => TopTask(s).creates = want

\* The scenario of the spec: startingPort 3001, desiredCores 4.
C6_Witness ==
    \E s \in ServerNames :
        /\ PassDone(s) /\ TopTask(s).cores = Num(4) /\ TopTask(s).port = 3001
        /\ Len(TopTask(s).creates) = 3
        /\ \A i \in 1..3 : /\ TopTask(s).creates[i].targets = {i}
                           /\ TopTask(s).creates[i].port = 3000 + i
                           /\ TopTask(s).creates[i].coreId = i
                           /\ TopTask(s).creates[i].inner = 3000

\* C8: when the nproc probe raises, the failure is not propagated: a warning
\* is logged, the core count is exactly 2, and the pass reconciles the one
\* slot 1: its only create command is that of worker 1, and if nothing else
\* fails the inventory ends as worker 1 alone.
C8_ProbeRaisedGivesTwo ==
    \A s \in ServerNames :
        (TopTask(s).fn = "start" /\ TopTask(s).warned) =>
            /\ TopTask(s).cores = Num(2)
            /\ TopTask(s).st # "rejected"
            /\ ~TopTask(s).single
            /\ \A k \in 1..Len(TopTask(s).creates) :
                    k = 1 /\ TopTask(s).creates[k].targets = {1}
            /\ (PassDone(s) /\ TopTask(s).looped) => Len(TopTask(s).creates) = 1
            /\ (PassDone(s) /\ failures = 1) => WorkerSlots(s) = {1}

\* The probe raised, nothing else did, and the pass is over.
C8_Witness ==
    \E s \in ServerNames :
        /\ PassDone(s) /\ TopTask(s).warned /\ failures = 1
        /\ TopTask(s).cores = Num(2)
        /\ WorkerSlots(s) = {1}

\* C9: the core count a task resolved is an integer >= 1.
C9_CoresIsPositiveInteger ==
    \A t \in TaskIds :
        (tasks[t].fn \in {"start", "nginx"} /\ tasks[t].pc # "nproc")
            => tasks[t].cores.t = "number" /\ tasks[t].cores.v >= 1

(***************************************************************************)
(* Claims about the hooks (Spec).                                          *)
(***************************************************************************)
\* The commands that change a container.
Mutating == {"stop", "rm", "restart", "run"}

\* A step of a running hook: the command it issued, if it changes containers,
\* does not name the primary, and the primary is as it was.
HookStepKeepsPrimary ==
    (hook.name \in Hooks /\ hook'.name = hook.name) =>
        /\ lastCmd'.kind \in Mutating => 0 \notin lastCmd'.targets
        /\ 0 \in lastCmd'.targets => lastCmd'.kind \in {"inspect", "logs"}
        /\ \A s \in ServerNames : containers'[s][0] = containers[s][0]

\* C4: in every hook (deploy, start, restart, stop) and in the logs command,
\* no stop, remove, restart or create command targets the container named
\* appName; the primary is only inspected and its logs read, and every step
\* of the hook leaves it present and running exactly when it was.
C4_PrimaryNeverTargeted == [][HookStepKeepsPrimary]_vars

\* A stop, remove or restart command went to the workers of a server whose
\* primary runs.
C4_Witness ==
    \E s \in ServerNames :
        /\ hook.name \in Hooks
        /\ lastCmd.server = s
        /\ lastCmd.kind \in {"stop", "rm", "restart"}
        /\ lastCmd.targets # {} /\ 0 \notin lastCmd.targets
        /\ containers[s][0].status = "running"

\* C10: the promise a hook or the logs command returns never rejects,
\* whichever remote commands raise: no per-server task of the hook's
\* Promise.all is rejected.
C10_HookPromiseNeverRejects ==
    \A s \in ServerNames : tasks[<<"top", s>>].st # "rejected"

(***************************************************************************)
(* SpecDeploy: one process running the deploy hook, for every core count,  *)
(* a few starting ports and every setting of useNginx, global and per      *)
(* server.                                                                 *)
(***************************************************************************)
DeployServers(i, p, n) ==
    [s \in ServerNames |->
        CASE s = "web1"    -> [present |-> TRUE, multiCore |-> Settings(i, p, n)]
          [] s = "worker1" -> [present |-> TRUE, multiCore |-> Settings(Num(1), Undef, Undef)]
          [] OTHER         -> NoServer]

\* Starting ports: the default, the primary's own port, the last port.
DeployPorts == {Undef, Num(3000), Num(65535)}

DeployConfigs ==
    {Config(Settings(Undef, Undef, g), DeployServers(i, p, n), TRUE, Undef) :
        g \in {Undef, Bool(TRUE)}, i \in {Undef, Num(MaxCores - 1)}, p \in DeployPorts,
        n \in {Undef, Bool(TRUE), Bool(FALSE)}}

DeployOptions == {[kind |-> "array", parts |-> <<"web1">>]}

\* The hosts before the deploy: web1 holds no worker, or worker 1 of an
\* earlier deploy.
DeployHosts ==
    {[s \in ServerNames |->
        IF s = "web1" THEN [EmptyHost EXCEPT ![1] = w] ELSE EmptyHost] :
        w \in {Absent, [status |-> "running", port |-> workerPort(3001, 1)]}}

InitDeploy == InitHosts(DeployHosts)

NginxSteps(t) ==
    \/ NginxBackup(t)
    \/ NginxWrite(t)
    \/ NginxSite(t)
    \/ NginxConf(t)
    \/ NginxReload(t)

NextDeploy ==
    \/ LoadConfig(DeployConfigs, DeployOptions)
    \/ PrepareConfig
    \/ InvokeHook("deploy")
    \/ DeployThen
    \/ \E t \in TaskIds : StartStep(t, MaxCores)
    \/ \E t \in TaskIds : NginxSteps(t)

SpecDeploy == InitDeploy /\ [][NextDeploy]_vars

\* The remote commands of updateMupNginx.
NginxKinds == {"cp", "cat", "sed-site", "sed-conf", "reload"}

\* The useNginx the configuration gives server s: the per-server value when
\* defined, else the global value when defined, else false.
ConfiguredNginx(s) ==
    Precedence(loaded.servers[s].multiCore, loaded.multiCore, "useNginx", Bool(FALSE))

\* C11: no nginx command (env backup, upstream write, site patch, upstream
\* insertion, nginx -t / reload) and no core probe for nginx is issued
\* against a server whose effective useNginx is false, and when it is false
\* for every selected server the deploy hook does not call updateMupNginx.
C11_NoNginxWhereDisabled ==
    hook.name \in Hooks =>
        /\ \A s \in ServerNames :
                (ConfiguredNginx(s) = Bool(FALSE) /\ lastCmd.server = s) =>
                    /\ lastCmd.kind \notin NginxKinds
                    /\ ~(lastCmd.kind = "nproc" /\ hook.stage = "nginx")
        /\ (\A s \in Selected : ConfiguredNginx(s) = Bool(FALSE)) => hook.stage # "nginx"

(***************************************************************************)
(* SpecValidate: the two validators on a configuration whose global        *)
(* multiCore and whose per-server multiCore of web1 are the same object M, *)
(* for M over valid and invalid values of every field; mup may call them   *)
(* on the configuration as loaded or as prepareConfig left it.             *)
(***************************************************************************)
\* validate.multiCore(config) and validate['app.servers'](config)
Validate ==
    /\ hook = NoHook
    /\ ~details.ran
    /\ details' = [ran |-> TRUE, prepared |-> prepared,
                   multiCore |-> validateMultiCore(config),
                   servers |-> validateAppServers(config)]
    /\ UNCHANGED <<procVars, effective, selected, hostVars, runVars>>

AnyInstances == {Undef, Auto, Str(1), Str(2), Num(0), Num(1), Num(MaxCores), Half(2), NaN,
                 Bool(TRUE)}
AnyPorts     == {Undef, Num(1023), Num(1024), Num(65535), Num(65536), Half(3005), NaN,
                 Str(2)}
AnyNginx     == {Undef, Bool(TRUE), Bool(FALSE), Num(1), Str(2)}

AnySettings ==
    {NoSettings} \cup {Settings(i, p, n) : i \in AnyInstances, p \in AnyPorts, n \in AnyNginx}

ValidateConfigs ==
    {Config(M, [s \in ServerNames |->
                    CASE s = "web1"    -> [present |-> TRUE, multiCore |-> M]
                      [] s = "worker1" -> [present |-> TRUE, multiCore |-> NoSettings]
                      [] OTHER         -> NoServer],
            TRUE, Undef) : M \in AnySettings}

InitValidate == InitHosts(NoHosts)

NextValidate ==
    \/ LoadConfig(ValidateConfigs, {NoFilter})
    \/ PrepareConfig
    \/ Validate

SpecValidate == InitValidate /\ [][NextValidate]_vars

SettingsFields == {"instances", "startingPort", "useNginx"}

\* The validity the spec states for a field's value.
ValidField(f, x) ==
    \/ x = Undef
    \/ f = "instances" /\ (x = Auto \/ (x.t = "number" /\ x.v >= 1))
    \/ f = "startingPort" /\ x.t = "number" /\ x.v >= 1024 /\ x.v <= 65535
    \/ f = "useNginx" /\ x.t = "boolean"

\* The entries of a list of details that are about field f.
EntriesOf(list, f) == {k \in 1..Len(list) : list[k].field = f}

\* C12: the multiCore validator returns one entry for each invalid field and
\* none for a valid or absent one: instances is valid iff 'auto' or an integer
\* >= 1 (a non-integer or NaN is invalid), startingPort iff an integer in
\* 1024..65535, useNginx iff a boolean.
C12_ValidatorAcceptsExactlyValid ==
    details.ran =>
        \A f \in SettingsFields :
            Cardinality(EntriesOf(details.multiCore, f)) =
                IF loaded.multiCore.present /\ ~ValidField(f, loaded.multiCore[f])
                THEN 1 ELSE 0

\* The fields and messages of the entries of a scope.
Reported(list, scope) ==
    {<<list[k].field, list[k].message>> : k \in {j \in 1..Len(list) : list[j].scope = scope}}

\* C13: the 'app.servers' validator reports for web1, whose multiCore is M,
\* exactly the fields and messages the 'multiCore' validator reports for M,
\* on the configuration as the validators receive it, before or after
\* prepareConfig.
C13_ValidatorsAgree ==
    (details.ran /\ loaded.servers["web1"].multiCore = loaded.multiCore) =>
        Reported(details.servers, "web1") = Reported(details.multiCore, "multiCore")

(***************************************************************************)
(* Claims about the server filter during the hooks (Spec).                 *)
(***************************************************************************)
\* The servers of the inventory the --servers option names.
NamedServers ==
    IF options.kind = "absent" THEN {s \in ServerNames : loaded.servers[s].present}
    ELSE {s \in ServerNames : loaded.servers[s].present
                              /\ \E k \in 1..Len(options.parts) : options.parts[k] = s}

\* C14: during every hook and the logs command, the restart hook's fallback
\* to startWorkerContainers included, no remote command is issued against,
\* and no task runs for, a server the --servers filter does not select.
C14_CommandsStayInFilter ==
    hook.name \in Hooks =>
        /\ lastCmd.kind # "none" => lastCmd.server \in NamedServers
        /\ \A t \in TaskIds : tasks[t].fn # "idle" => t[2] \in NamedServers

\* The restart hook fell back to startWorkerContainers, which created a
\* worker on the selected server, while another server of the inventory is
\* not selected.
C14_Witness ==
    /\ hook.name = "restart"
    /\ \E s \in NamedServers :
          /\ tasks[<<s, s>>].fn = "start"
          /\ lastCmd.server = s /\ lastCmd.kind = "run"
    /\ \E s \in ServerNames : loaded.servers[s].present /\ s \notin NamedServers

(***************************************************************************)
(* Claims about the upstream block and the ports (SpecDeploy).             *)
(***************************************************************************)
\* The starting port the configuration gives server s.
ConfiguredPort(s) ==
    Precedence(loaded.servers[s].multiCore, loaded.multiCore, "startingPort", Num(3001)).v

\* The upstream text the spec gives: the block meteor_backend, the primary's
\* address, then the address of slot i = 1..cores-1 in ascending order.
ExpectedUpstream(appPort, startingPort, cores) ==
    <<UpstreamOpen, UpstreamServer(appPort)>>
        \o [i \in 1..(IF cores > 1 THEN cores - 1 ELSE 0) |->
                UpstreamServer(startingPort + i - 1)]
        \o <<UpstreamClose>>

\* The nginx task of server s has written the upstream file.
UpstreamWritten(s) ==
    /\ TopTask(s).fn = "nginx"
    /\ nginx[s].staged # <<>>

\* C15: the upstream text a task wrote is one block named meteor_backend:
\* first the primary's address 127.0.0.1:appPort, then one line
\* 127.0.0.1:(startingPort+i-1) per slot i = 1..cores-1 in ascending order,
\* and nothing else; the primary only when cores <= 1.
C15_UpstreamListsPrimaryThenSlots ==
    \A s \in ServerNames :
        (UpstreamWritten(s) /\ TopTask(s).cores.t = "number") =>
            nginx[s].staged =
                ExpectedUpstream(getAppPort(loaded).v, ConfiguredPort(s), TopTask(s).cores.v)

\* A block for the most cores a host has, from the default ports.
C15_Witness ==
    \E s \in ServerNames :
        /\ UpstreamWritten(s) /\ TopTask(s).cores = Num(MaxCores)
        /\ Len(nginx[s].staged) = MaxCores + 2
        /\ nginx[s].staged[2] = UpstreamServer(3000)
        /\ \A i \in 1..(MaxCores - 1) : nginx[s].staged[i + 2] = UpstreamServer(3000 + i)

\* The ports of the server lines of an upstream text, in order.
UpstreamPorts(text) ==
    [k \in 1..(IF Len(text) >= 2 THEN Len(text) - 2 ELSE 0) |-> text[k + 1].port]

\* C16: for every validated configuration, the host ports a pass gives the
\* worker slots of a server are pairwise distinct, none is the primary's
\* port, none is above 65535, and the upstream block lists no address twice.
C16_PortsDoNotConflict ==
    \A s \in ServerNames :
        /\ TopTask(s).fn = "start" =>
              LET made == TopTask(s).creates
              IN  \A k \in 1..Len(made) :
                      /\ made[k].port # getAppPort(loaded).v
                      /\ made[k].port <= 65535
                      /\ \A j \in 1..Len(made) : j # k => made[j].port # made[k].port
        /\ UpstreamWritten(s) =>
              LET ports == UpstreamPorts(nginx[s].staged)
              IN  \A j, k \in 1..Len(ports) : j # k => ports[j] # ports[k]

(***************************************************************************)
(* SpecRestart: one process running the restart hook on two selected       *)
(* servers of one core, each with or without a worker of an earlier pass,  *)
(* running or exited.                                                      *)
(***************************************************************************)
RestartConfigs ==
    {Config(Settings(Num(1), Undef, Undef),
            [s \in ServerNames |->
                IF s \in {"web1", "worker1"}
                THEN [present |-> TRUE, multiCore |-> NoSettings] ELSE NoServer],
            d, Undef) : d \in BOOLEAN}

RestartHosts ==
    {[s \in ServerNames |->
        CASE s = "web1"    -> [EmptyHost EXCEPT ![1] = a]
          [] s = "worker1" -> [EmptyHost EXCEPT ![1] = b]
          [] OTHER         -> EmptyHost] :
        a, b \in {Absent, [status |-> "running", port |-> workerPort(3001, 1)],
                        [status |-> "exited", port |-> workerPort(3001, 1)]}}

InitRestart == InitHosts(RestartHosts)

RestartSteps(t) ==
    \/ RestartQuery(t)
    \/ RestartCmd(t)
    \/ RestartAwait(t)
    \/ CleanupQuery(t)
    \/ CleanupStop(t)
    \/ CleanupRm(t)
    \/ FallbackStop(t)
    \/ FallbackRm(t)

NextRestart ==
    \/ LoadConfig(RestartConfigs, {NoFilter})
    \/ PrepareConfig
    \/ InvokeHook("restart")
    \/ \E t \in TaskIds : RestartSteps(t)

SpecRestart == InitRestart /\ [][NextRestart]_vars

\* The reconciliation sequences (per-server bodies of startWorkerContainers)
\* in progress on server s, by the invocation they belong to.
PassesInProgress(s) ==
    {inv \in Invs : tasks[<<inv, s>>].fn = "start" /\ tasks[<<inv, s>>].st = "pending"}

\* The restart task of server s is about to issue its docker restart.
RestartInProgress(s) == tasks[<<"top", s>>].pc = "r_restart"

\* C17: within one hook invocation, at most one reconciliation sequence is
\* in progress on a server at any time, and none while that server's
\* restart command is still to be issued.
C17_OnePassPerServer ==
    \A s \in ServerNames :
        /\ Cardinality(PassesInProgress(s)) <= 1
        /\ RestartInProgress(s) => PassesInProgress(s) = {}

(***************************************************************************)
(* More claims about one start pass (SpecPass).                            *)
(***************************************************************************)
\* The slots the pass issued a create command for.
CreatedSlots(s) ==
    UNION {TopTask(s).creates[k].targets : k \in 1..Len(TopTask(s).creates)}

\* C18: a start pass on a reachable server (none of its commands raised)
\* removes every worker container that was there when it began, also when
\* desiredCores > 1 and the image inspect returns no image: the workers left
\* at its end are all of its own making.
C18_NoStaleWorkerSurvives ==
    \A s \in ServerNames :
        (PassDone(s) /\ ~TopTask(s).raised) => WorkerSlots(s) \subseteq CreatedSlots(s)

\* The positions of a start task before its cleanup is over.
BeforeCreate == {"nproc", "inspect", "query", "stop", "rm", "fb_stop", "fb_rm"}

\* The positions between the create command of a slot and the end of its
\* status check and diagnostics.
SlotInHand == {"settle", "status", "logs", "images"}

\* C19: within one server's start task the steps are sequential: the image
\* inspect and the whole cleanup (query, stop, rm or the fallback loop) are
\* over before the first create command, and the create of slot i+1 is not
\* issued before slot i's create, settle and status check are over: the
\* creates so far are those of slots 1, 2, ... in order, the last of them
\* the slot in hand.
C19_StepsAreSequential ==
    \A s \in ServerNames :
        TopTask(s).fn = "start" =>
            LET r == TopTask(s)
            IN  /\ r.creates # <<>> => r.inspected /\ r.pc \notin BeforeCreate
                /\ r.pc \in SlotInHand => Len(r.creates) = r.i
                /\ r.pc = "run" => Len(r.creates) = r.i - 1
                /\ \A k \in 1..Len(r.creates) : r.creates[k].targets = {k}

\* The task found workers, removed them, created slot 1 and saw it run, and
\* is about to create slot 2.
C19_Witness ==
    \E s \in ServerNames :
        /\ TopTask(s).fn = "start" /\ TopTask(s).pc = "run" /\ TopTask(s).i = 2
        /\ TopTask(s).found /\ TopTask(s).inspected /\ TopTask(s).clean
        /\ Len(TopTask(s).creates) = 1
        /\ containers[s][1].status = "running"

\* C20: a slot's failure does not block the later slots: when the pass is
\* over, whatever happened to slot i (its run raised, its status check
\* found it not running or raised, its logs or image check raised), the
\* create command of every slot j with i < j <= desiredCores - 1 was issued.
C20_LaterSlotsStillCreated ==
    \A s \in ServerNames :
        (PassDone(s) /\ TopTask(s).cores.t = "number") =>
            \A i \in CreatedSlots(s) :
                \A j \in (i + 1)..(TopTask(s).cores.v - 1) : j \in CreatedSlots(s)

\* Slot 1 of a four-core pass did not come up, and slots 2 and 3 were
\* created and run.
C20_Witness ==
    \E s \in ServerNames :
        /\ PassDone(s) /\ TopTask(s).cores = Num(4)
        /\ CreatedSlots(s) = {1, 2, 3}
        /\ containers[s][1].status # "running"
        /\ containers[s][2].status = "running"
        /\ containers[s][3].status = "running"

(***************************************************************************)
(* SpecFleet: one process running the deploy hook on two selected servers  *)
(* of two cores each, both behind nginx.                                   *)
(***************************************************************************)
FleetServers == {"web1", "worker1"}

\* web1 has two or three cores; worker1 two, or one by its own override.
FleetConfigs ==
    {Config(Settings(Num(2), Undef, Bool(TRUE)),
            [s \in ServerNames |->
                CASE s = "web1"    -> [present |-> TRUE, multiCore |-> Settings(a, Undef, Undef)]
                  [] s = "worker1" -> [present |-> TRUE, multiCore |-> Settings(b, Undef, Undef)]
                  [] OTHER         -> NoServer],
            TRUE, Undef) : a \in {Undef, Num(3)}, b \in {Undef, Num(1)}}

\* The hosts before the deploy: web1 holds no worker, or worker 1 of an
\* earlier deploy.
FleetHosts == DeployHosts

InitFleet == InitHosts(FleetHosts)

\* The awaits of startWorkerContainers when instances is a number.
FleetSteps(t) ==
    \/ InspectImage(t)
    \/ InspectEmpty(t)
    \/ CleanupQuery(t)
    \/ CleanupStop(t)
    \/ CleanupRm(t)
    \/ FallbackStop(t)
    \/ FallbackRm(t)
    \/ RunWorker(t)
    \/ Settle(t)
    \/ StatusCheck(t)
    \/ WorkerLogs(t)
    \/ ImageCheck(t)
    \/ FinalStatus(t)

NextFleet ==
    \/ LoadConfig(FleetConfigs, {NoFilter})
    \/ PrepareConfig
    \/ InvokeHook("deploy")
    \/ DeployThen
    \/ \E t \in TaskIds : FleetSteps(t)
    \/ \E t \in TaskIds : NginxSteps(t)

SpecFleet == InitFleet /\ [][NextFleet]_vars

\* The same, with the event loop running every task that can go on.
SpecFleetFair == SpecFleet /\ WF_vars(NextFleet)

\* The image inspect of the start task of server s raised or gave no image.
DiscoveryFailed(s) == TopTask(s).fn = "start" /\ TopTask(s).image \in {"empty", "raised"}

\* Every start task of the hook's call is over.
AllPassesOver == \A u \in ServerNames : TopTask(u).fn = "start" => PassDone(u)

\* The task of s ended at the inspect: no cleanup, no create, the failure
\* logged, its promise fulfilled; and a task of another server that went
\* through without a failure of its own left exactly its desired slots.
DiscoveryFailureIsLocal(s) ==
    DiscoveryFailed(s) =>
        /\ PassDone(s) /\ TopTask(s).st = "fulfilled"
        /\ TopTask(s).creates = <<>> /\ ~TopTask(s).found /\ ~TopTask(s).looped
        /\ ~TopTask(s).clean
        /\ \A u \in ServerNames \ {s} :
                (PassDone(u) /\ TopTask(u).clean /\ TopTask(u).cores.t = "number")
                    => WorkerSlots(u) = 1..(TopTask(u).cores.v - 1)

\* C21: when the image inspect raises or returns an empty reference on a
\* server, that server's task ends there with the error logged and no create
\* command, and the start tasks of the other selected servers are not
\* affected: they run to their end, and one whose own commands all succeed
\* leaves its desired workers.
C21_DiscoveryFailureIsolated ==
    /\ [](\A s \in ServerNames : DiscoveryFailureIsLocal(s))
    /\ \A s \in ServerNames : DiscoveryFailed(s) ~> AllPassesOver

\* The inspect failed on web1 while worker1's pass was under way, and
\* worker1's pass created its worker.
C21_Witness ==
    /\ DiscoveryFailed("web1") /\ TopTask("web1").creates = <<>>
    /\ PassDone("worker1") /\ TopTask("worker1").clean
    /\ TopTask("worker1").cores = Num(2)
    /\ WorkerSlots("worker1") = {1}

(***************************************************************************)
(* SpecFallback: one start pass on a server of one or two desired cores    *)
(* that holds the workers of an earlier pass for 2, 11 or 12 cores.        *)
(***************************************************************************)
FallbackConfigs ==
    {Config(Settings(i, Undef, Undef), OnlyServers({"web1"}), TRUE, Undef) :
        i \in {Num(1), Num(2)}}

\* The workers a clean pass for c cores creates: slots 1..c-1, running,
\* published from the default starting port.
WorkersOfPass(c) ==
    [i \in Slots |->
        IF i >= 1 /\ i < c THEN [status |-> "running", port |-> workerPort(3001, i)]
        ELSE Absent]

FallbackHosts ==
    {[s \in ServerNames |-> IF s = "web1" THEN WorkersOfPass(c) ELSE EmptyHost] :
        c \in {2, FallbackCeiling + 1, FallbackCeiling + 2}}

InitFallback == InitHosts(FallbackHosts)

NextFallback ==
    \/ LoadConfig(FallbackConfigs, {NoFilter})
    \/ PrepareConfig
    \/ InvokeHook("start")
    \/ \E t \in TaskIds : FleetSteps(t)

SpecFallback == InitFallback /\ [][NextFallback]_vars

\* The fallback loop of the start task of s has issued its last command,
\* the remove of slot 10, and only the command that led into the loop raised.
FallbackOver(s) ==
    /\ TopTask(s).fn = "start" /\ TopTask(s).raised
    /\ failures = 1
    /\ lastCmd = Cmd(s, "rm", {FallbackCeiling})

\* C22: when the inventory query (or the stop or remove after it) raises,
\* the fallback stops and removes slots 1..10, whatever desiredCores and the
\* inventory are, and once it has run with every stop and remove succeeding
\* no worker container of an earlier pass is left on the server.
C22_FallbackRemovesEveryWorker ==
    \A s \in ServerNames :
        /\ (TopTask(s).fn = "start" /\ TopTask(s).pc \in {"fb_stop", "fb_rm"})
                => TopTask(s).i \in 1..FallbackCeiling
        /\ FallbackOver(s) => ReplicaInventory(containers[s]) = {}

(***************************************************************************)
(* Claims about the hook's promise (SpecFleet).                            *)
(***************************************************************************)
\* The promise the hook returned has settled: the Promise.all of its stage
\* has rejected (with the first rejection), or every task of its last stage
\* has fulfilled.
HookSettled ==
    /\ hook.name \in Hooks
    /\ \/ TopRejected
       \/ /\ hook.stage \in {"run", "nginx"}
          /\ \A s \in Selected : TopTask(s).st = "fulfilled"

\* C23: the tasks of all selected servers are launched together, the promise
\* the hook returns does not settle while a per-server task still has a
\* command to issue or to wait for, and the nginx stage of the deploy hook
\* starts only when no start task is pending.
C23_HookSettlesAfterEveryTask ==
    /\ (hook.name \in Hooks /\ hook.stage # "done")
            => \A s \in Selected : TopTask(s).fn # "idle"
    /\ HookSettled => ~Pending
    /\ hook.stage = "nginx" => \A t \in TaskIds : tasks[t].fn # "start"

(***************************************************************************)
(* More claims about the deploy hook (SpecDeploy, SpecFleet).              *)
(***************************************************************************)
\* The ports of the replica lines of an upstream text: every server line
\* after the primary's.
ReplicaPorts(text) ==
    {text[k].port : k \in {j \in 3..Len(text) : text[j].line = "server"}}

\* The host ports of the worker containers on server s.
WorkerPorts(s) == {r.port : r \in ReplicaInventory(containers[s])}

\* C24: in a deploy pass the replica ports of the upstream block written for
\* a server are the host ports of the workers the pass's reconciliation left
\* on that server, whatever each core-count probe and each slot start did.
C24_UpstreamMatchesWorkers ==
    \A s \in ServerNames :
        (hook.name = "deploy" /\ UpstreamWritten(s))
            => ReplicaPorts(nginx[s].staged) = WorkerPorts(s)

\* A step of the deploy hook: the nginx stage is entered only from a start
\* stage all of whose tasks have fulfilled, an nginx command is issued only
\* in the nginx stage, and no step of that stage changes a container.
DeployStagesInOrder ==
    /\ (hook.stage = "start" /\ hook'.stage = "nginx")
            => \A s \in Selected : TopTask(s).fn = "start" /\ TopTask(s).st = "fulfilled"
    /\ (lastCmd' # lastCmd /\ lastCmd'.kind \in NginxKinds)
            => /\ hook.stage = "nginx"
               /\ \A t \in TaskIds : tasks[t].fn # "start"
    /\ (hook.stage = "nginx" /\ hook'.stage = "nginx") => containers' = containers

\* C25: in the deploy hook no nginx command is issued before the start tasks
\* of all selected servers have settled, and the nginx stage creates, stops
\* and removes nothing: whatever nginx step fails, the containers of every
\* server stay as the reconciliation left them.
C25_NginxAfterReconciliation == [][DeployStagesInOrder]_vars

\* An nginx step raised on web1 after both servers' reconciliations had
\* created their workers.
C25_Witness ==
    /\ hook = [name |-> "deploy", stage |-> "nginx"]
    /\ TopTask("web1").fn = "nginx" /\ TopTask("web1").raised
    /\ WorkerSlots("web1") # {} /\ WorkerSlots("worker1") # {}

\* What the apply chain has done on a server, step by step: the backup, the
\* staged upstream file, the patched site, the inserted block, the reload.
ChainDone(files) ==
    <<files.backup, files.staged # <<>>, files.patched, files.conf # <<>>,
      files.live # <<>>>>

\* The steps of the chain that took effect are its first n.
FirstSteps(files, n) == \A k \in 1..5 : ChainDone(files)[k] <=> k <= n

\* The position of an nginx task in the chain: the steps behind it.
ChainBehind(pc) ==
    CASE pc = "n_backup" -> 0
      [] pc = "n_write"  -> 1
      [] pc = "n_site"   -> 2
      [] pc = "n_conf"   -> 3
      [] pc = "n_reload" -> 4
      [] OTHER           -> 5

\* C26: on a server with useNginx = true the chain runs in the order backup,
\* write, site patch, block insertion, validate-and-reload; when a step
\* raises no later step is issued on that server (no reload after a failed
\* write or patch), the error is logged, the task's promise fulfils, and the
\* nginx task of the other server goes through its own chain.
C26_ChainStopsAtFirstFailure ==
    \A s \in ServerNames :
        TopTask(s).fn = "nginx" =>
            LET r == TopTask(s)
            IN  /\ ~r.raised => FirstSteps(nginx[s], ChainBehind(r.pc))
                /\ r.raised =>
                      /\ r.pc = "done" /\ r.st = "fulfilled" /\ ~r.clean
                      /\ \E n \in 0..4 : FirstSteps(nginx[s], n)
                /\ (lastCmd.server = s /\ lastCmd.kind = "reload")
                        => FirstSteps(nginx[s], IF r.raised THEN 4 ELSE 5)

\* The write raised on web1, so that only the backup was made there, and
\* worker1's chain went through to the reload.
C26_Witness ==
    /\ TopTask("web1").fn = "nginx" /\ TopTask("web1").raised
    /\ FirstSteps(nginx["web1"], 1)
    /\ TopTask("worker1").fn = "nginx" /\ TopTask("worker1").pc = "done"
    /\ ~TopTask("worker1").raised
    /\ FirstSteps(nginx["worker1"], 5)

(***************************************************************************)
(* Claims about the logs command (Spec).                                   *)
(***************************************************************************)
\* The logs task of server s.
LogsOf(s) == TopTask(s).fn = "logs"

\* C27: the logs task of a server fetches the primary's tail first and then
\* the tail of every worker running on the server and of no other
\* container; a section is printed only for a container that exists and
\* gave output (a missing container gives no section and no error), and a
\* raised command ends the task with its promise fulfilled.
C27_LogsOfPrimaryThenRunningWorkers ==
    \A s \in ServerNames :
        LogsOf(s) =>
            LET r == TopTask(s)
            IN  /\ r.pc = "l_main" => r.sections = {}
                /\ r.pc = "l_worker"
                        => /\ r.list # {} /\ r.list \subseteq runningWorkers(containers[s])
                           /\ r.sections \subseteq {0} \cup (runningWorkers(containers[s]) \ r.list)
                /\ (lastCmd.server = s /\ lastCmd.kind = "logs")
                        => lastCmd.targets \subseteq {0} \cup runningWorkers(containers[s])
                /\ r.sections \subseteq {0} \cup runningWorkers(containers[s])
                /\ \A i \in r.sections : containers[s][i].status # "absent"
                /\ r.st # "rejected"
                /\ r.raised => r.pc = "done"

\* A step into or inside the logs command leaves the containers of every
\* server, the nginx files and the override table as they were.
LogsStepReadsOnly ==
    hook'.name = "logs" =>
        /\ containers' = containers
        /\ nginx' = nginx
        /\ serverConfigs' = serverConfigs

\* C28: the logs command is read-only: whatever its remote commands return
\* or raise, the containers of every server (which exist, and which run, the
\* primary included), the nginx configuration and the per-server override
\* table are after every step of aggregateLogs what they were before it.
C28_LogsChangesNothing == [][LogsStepReadsOnly]_vars

\* A logs task listed running workers, printed sections and then one of its
\* commands raised, on a server with an override and an upstream block.
C28_Witness ==
    /\ hook.name = "logs"
    /\ LogsOf("web1") /\ TopTask("web1").pc = "done"
    /\ TopTask("web1").found /\ TopTask("web1").raised
    /\ TopTask("web1").sections # {}
    /\ WorkerSlots("web1") # {}
    /\ serverConfigs["web1"].present
    /\ nginx["web1"].conf # <<>>

(***************************************************************************)
(* SpecPrepare: prepareConfig called once or more on the configuration     *)
(* object of one process, then the three getters.                          *)
(***************************************************************************)
\* prepareConfig(config), called again on the object an earlier call edited
PrepareConfigAgain ==
    /\ hook = NoHook
    /\ prepared
    /\ serverConfigs' = prepareConfigTable(config)
    /\ config' = prepareConfigObject(config)
    /\ UNCHANGED <<loaded, prepared, options, pureVars, hostVars, runVars>>

InitPrepare == InitHosts(NoHosts)

NextPrepare ==
    \/ LoadConfig(ConfigConfigs, {NoFilter})
    \/ PrepareConfig
    \/ PrepareConfigAgain
    \/ \E s \in ServerNames : ResolveSettings(s)

SpecPrepare == InitPrepare /\ [][NextPrepare]_vars

\* The settings the getters return for s after the first prepareConfig call
\* on the configuration as loaded.
AfterFirstCall(s) ==
    LET table == prepareConfigTable(loaded)
        cfg   == prepareConfigObject(loaded)
    IN  [resolved     |-> TRUE,
         instances    |-> getInstanceCount(cfg, table, s),
         startingPort |-> getStartingPort(cfg, table, s),
         useNginx     |-> shouldUseNginx(cfg, table, s)]

\* C29: after any number (>= 1) of prepareConfig calls on the same
\* configuration object, the settings the getters resolve for every server
\* are those resolved after the first call: its overrides are still in
\* effect.
C29_SettingsStableUnderRepeatedPrepare ==
    \A s \in ServerNames : effective[s].resolved => effective[s] = AfterFirstCall(s)

(***************************************************************************)
(* SpecReapply: deploy processes following one another on one server       *)
(* behind nginx, with the same configuration every time; the next deploy   *)
(* is run after a process none of whose commands failed.                   *)
(***************************************************************************)
ReapplyConfigs ==
    {Config(Settings(Num(2), Undef, Bool(TRUE)), OnlyServers({"web1"}), TRUE, Undef)}

InitReapply == InitHosts(NoHosts)

NextReapply ==
    \/ LoadConfig(ReapplyConfigs, {NoFilter})
    \/ PrepareConfig
    \/ Invoke("deploy", MaxBlocks + 1)
    \/ DeployThen
    \/ \E t \in TaskIds : FleetSteps(t)
    \/ \E t \in TaskIds : NginxSteps(t)
    \/ failures = 0 /\ ExitProcess(FALSE)

SpecReapply == InitReapply /\ [][NextReapply]_vars

\* The nginx task of server s went through its chain with no command of the
\* process raising.
AppliedCleanly(s) ==
    /\ hook.name = "deploy"
    /\ TopTask(s).fn = "nginx" /\ TopTask(s).pc = "done" /\ ~TopTask(s).raised
    /\ failures = 0

\* C30: after any number (>= 1) of deploy passes with the same configuration
\* and every command succeeding, nginx.conf holds exactly one meteor_backend
\* upstream block, as after the first pass.
C30_OneUpstreamBlock ==
    \A s \in ServerNames : AppliedCleanly(s) => Len(nginx[s].conf) = 1

(***************************************************************************)
(* SpecRestartKept: one process running the restart hook on two selected   *)
(* servers that each hold workers of an earlier pass, one or two, running  *)
(* or exited, while the configuration asks for one, two or MaxCores        *)
(* instances.                                                              *)
(***************************************************************************)
KeptConfigs ==
    {Config(Settings(Num(n), Undef, Undef),
            [s \in ServerNames |->
                IF s \in {"web1", "worker1"}
                THEN [present |-> TRUE, multiCore |-> NoSettings] ELSE NoServer],
            TRUE, Undef) : n \in {1, 2, MaxCores}}

\* The workers an earlier pass can have left on a server: slot 1, and slot 2
\* or not, each running or exited.
KeptWorkers ==
    {[EmptyHost EXCEPT ![1] = [status |-> a, port |-> workerPort(3001, 1)],
                       ![2] = IF b = "absent" THEN Absent
                              ELSE [status |-> b, port |-> workerPort(3001, 2)]] :
        a \in {"running", "exited"}, b \in {"absent", "running", "exited"}}

KeptHosts ==
    {[s \in ServerNames |->
        CASE s = "web1"    -> x
          [] s = "worker1" -> y
          [] OTHER         -> EmptyHost] : x, y \in KeptWorkers}

InitRestartKept == InitHosts(KeptHosts)

NextRestartKept ==
    \/ LoadConfig(KeptConfigs, {NoFilter})
    \/ PrepareConfig
    \/ InvokeHook("restart")
    \/ \E t \in TaskIds : RestartQuery(t)
    \/ \E t \in TaskIds : RestartCmd(t)

SpecRestartKept == InitRestartKept /\ [][NextRestartKept]_vars

\* Every selected server holds a worker container, running or exited.
EveryServerHasWorker == \A s \in Selected : WorkerSlots(s) # {}

\* A step of a restart hook on servers that all hold a worker: the command
\* it issues, if any, is the inventory query or the restart of the workers
\* there are; no reconciliation is started; the workers of every server stay.
RestartStepKeepsWorkers ==
    (hook'.name = "restart" /\ EveryServerHasWorker) =>
        /\ lastCmd'.kind \in {"none", "ps", "restart"}
        /\ lastCmd'.kind = "restart" => lastCmd'.targets = WorkerSlots(lastCmd'.server)
        /\ \A t \in TaskIds : tasks'[t].fn \in {"idle", "restart"}
        /\ \A s \in ServerNames : WorkerSlots(s)' = WorkerSlots(s)

\* C31: when every selected server has at least one worker container
\* (running or exited), the restart hook issues on each server only an
\* inventory query and one restart command for the listed workers, and no
\* create, stop or remove command: the set of worker containers of each
\* server after the hook equals the set before it, whatever the desired
\* core count is.
C31_RestartKeepsWorkerSet == [][RestartStepKeepsWorkers]_vars

\* The hook is over on both servers without a raise: web1 keeps its two
\* workers, both running now, though one instance is asked for, and worker1
\* its one, though exited before.
C31_Witness ==
    /\ hook.name = "restart"
    /\ ~Pending
    /\ loaded.multiCore.instances = Num(1)
    /\ \A s \in {"web1", "worker1"} :
            /\ TopTask(s).st = "fulfilled"
            /\ TopTask(s).found
            /\ ~TopTask(s).raised
    /\ lastCmd.kind = "restart"
    /\ WorkerSlots("web1") = {1, 2}
    /\ WorkerSlots("worker1") = {1}
    /\ \A i \in {1, 2} : containers["web1"][i].status = "running"
    /\ containers["worker1"][1].status = "running"

(***************************************************************************)
(* SpecStop: one process running the stop hook on two selected servers     *)
(* that each hold no worker, or one or two workers of an earlier pass,     *)
(* running or exited.                                                      *)
(***************************************************************************)
StopHosts ==
    {[s \in ServerNames |->
        CASE s = "web1"    -> x
          [] s = "worker1" -> y
          [] OTHER         -> EmptyHost] : x, y \in KeptWorkers \cup {EmptyHost}}

InitStop == InitHosts(StopHosts)

NextStop ==
    \/ LoadConfig(KeptConfigs, {NoFilter})
    \/ PrepareConfig
    \/ InvokeHook("stop")
    \/ \E t \in TaskIds : StopQuery(t)
    \/ \E t \in TaskIds : StopStop(t)
    \/ \E t \in TaskIds : StopRm(t)

SpecStop == InitStop /\ [][NextStop]_vars

\* The stop hook has settled and none of its remote commands raised.
StoppedCleanly ==
    /\ hook = [name |-> "stop", stage |-> "run"]
    /\ ~Pending
    /\ failures = 0

\* C32: after a stop hook in which every remote command succeeds, no worker
\* container of the application remains on any selected server, running or
\* exited, whatever the inventory was before (also when all workers had
\* exited already).
C32_StopLeavesNoWorker ==
    StoppedCleanly => \A s \in Selected : WorkerSlots(s) = {}

(***************************************************************************)
(* SpecFair: Spec, where every remote command that is awaited returns or   *)
(* raises in the end and the event loop runs every continuation that is    *)
(* ready: a step that can be taken is taken.                               *)
(***************************************************************************)
SpecFair == Spec /\ WF_vars(Next)

\* A hook or the logs command has been invoked and the process is there.
Invoked == hook.name \in Hooks

\* What the invocation returned is settled: the hook returned undefined
\* (no app.docker), or its promise has rejected or fulfilled.
Returned == hook.stage = "done" \/ HookSettled

\* The bounds of one task: the fallback loop is at one of its
\* FallbackCeiling slots (a stop and an rm each), the create loop has issued
\* fewer creates than desiredCores, and a task of a nested invocation is a
\* start task, which makes no call of its own.
TaskBounded(t) ==
    LET r == tasks[t]
    IN  /\ r.pc \in {"fb_stop", "fb_rm"} => r.i \in 1..FallbackCeiling
        /\ r.creates # <<>> => JsLt(Num(Len(r.creates)), r.cores)
        /\ t[1] # "top" => r.fn \in {"idle", "start"}
        /\ r.pc = "r_await" => t[1] = "top"

\* C33: every hook invocation and every logs command terminates: provided
\* each remote command returns or raises in the end, the returned promise
\* settles, after a bounded number of remote commands per server (the
\* fallback cleanup issues at most 2 * FallbackCeiling commands, the create
\* loop makes at most desiredCores - 1 iterations, the restart hook falls
\* back to startWorkerContainers without further recursion).
C33_EveryInvocationTerminates ==
    /\ [](\A t \in TaskIds : TaskBounded(t))
    /\ Invoked ~> Returned

\* A restart hook that fell back to startWorkerContainers has fulfilled: the
\* nested pass, of one core, saw its cleanup raise and went through the whole
\* fallback loop.
C33_Witness ==
    /\ hook.name = "restart"
    /\ HookSettled
    /\ ~Pending
    /\ TopTask("web1").st = "fulfilled"
    /\ tasks[<<"web1", "web1">>].fn = "start"
    /\ tasks[<<"web1", "web1">>].st = "fulfilled"
    /\ tasks[<<"web1", "web1">>].single
    /\ tasks[<<"web1", "web1">>].raised

(***************************************************************************)
(* The hooks without app.docker (Spec).                                    *)
(***************************************************************************)
LifecycleHooks == Hooks \ {"logs"}

\* A step that leaves the process inside a lifecycle hook of a configuration
\* without app.docker: no remote command is issued and no task is created,
\* and the configuration, the override table, the worker containers and the
\* nginx files stay as they are.  (The primary container is mup's to start
\* and stop, before the hook is called.)
IdleWithoutDocker ==
    (hook'.name \in LifecycleHooks /\ ~config'.docker) =>
        /\ hook'.stage = "done"
        /\ lastCmd' = NoCmd
        /\ tasks' = IdleTasks
        /\ tasks' = tasks
        /\ config' = config
        /\ serverConfigs' = serverConfigs
        /\ nginx' = nginx
        /\ \A s \in ServerNames : \A i \in Slots \ {0} :
                containers'[s][i] = containers[s][i]

\* C34: when the configuration has no app.docker section, each of the four
\* lifecycle hooks returns without issuing any remote command and without
\* changing any state.
C34_NoDockerNoEffect == [][IdleWithoutDocker]_vars

\* A stop hook has returned under a configuration without app.docker, on a
\* server where an earlier process left a running worker and an upstream
\* block: both are still there.
C34_Witness ==
    /\ hook = [name |-> "stop", stage |-> "done"]
    /\ ~config.docker
    /\ lastCmd = NoCmd
    /\ \E i \in WorkerSlots("web1") : containers["web1"][i].status = "running"
    /\ nginx["web1"].conf # <<>>

====
